---- MODULE Spec2Model ----
(***************************************************************************)
(* Model of the serving path of public-civic-info-system:                  *)
(*   inference_pipeline/core/query.py      (orchestrator, audit)           *)
(*   inference_pipeline/core/retriever.py  (retrieve, dedupe, re-rank)     *)
(*   inference_pipeline/core/generator.py  (generate, output validation)   *)
(*                                                                         *)
(* Scaling of real numbers.  asr_confidence and similarity are in          *)
(* hundredths (0.75 -> 75), distances in hundredths, trust weights in      *)
(* hundredths, final scores in ten-thousandths (0.60 -> 6000).             *)
(*                                                                         *)
(* Python values of mixed type are tagged records: None, Str(s), Num(n),   *)
(* Lst (a non-empty list).                                                 *)
(***************************************************************************)
EXTENDS Integers, Sequences, FiniteSets, TLC

\* ------------------------------------------------------------------------
\* Bounds of the model
\* ------------------------------------------------------------------------
MaxQueryWords == 2
MaxCands == 2
GenMaxLines == 1
MaxLines == 2
MaxLineLen == 1

\* ------------------------------------------------------------------------
\* Python values
\* ------------------------------------------------------------------------
None == [t |-> "none"]
Str(s) == [t |-> "str", v |-> s]
Num(n) == [t |-> "num", n |-> n]
Lst == [t |-> "list"]

IsNone(x) == x.t = "none"
IsStr(x) == x.t = "str"
IsNum(x) == x.t = "num"

\* `x or ""` followed by .strip().lower() on the strings the requests carry.
StripLowerTable ==
    [s \in {"", "en", "hi", " TA ", "fr", "web", "sms", " Voice ", "fax"} |->
        CASE s = " TA " -> "ta"
          [] s = " Voice " -> "voice"
          [] OTHER -> s]

StripLower(s) == StripLowerTable[s]

\* float(x) of a string: the parsed value in hundredths, or "error".
ParseFloatTable == [s \in {"n/a", "0.2"} |-> IF s = "0.2" THEN Num(20) ELSE None]

\* ------------------------------------------------------------------------
\* core/query.py: configuration
\* ------------------------------------------------------------------------
MIN_SIMILARITY == 6000
ASR_CONF_THRESHOLD == 75
ALLOWED_LANGUAGES == {"en", "hi", "ta"}
ALLOWED_CHANNELS == {"web", "sms", "voice"}

\* GUIDANCE_KEYS.get(k)
GUIDANCE_KEYS ==
    [k \in {"medical", "legal", "asr_low_confidence", "insufficient_evidence"} |->
        CASE k = "medical" -> "refusal_medical"
          [] k = "legal" -> "refusal_legal"
          [] k = "asr_low_confidence" -> "refusal_asr_low_confidence"
          [] OTHER -> "refusal_insufficient_evidence"]

\* The request id made from the clock when the event carries none.
GeneratedRequestId == "r-now"

\* ------------------------------------------------------------------------
\* Queries: a query is a sequence of words (joined by single spaces); the
\* empty sequence is a query that is empty after strip().
\* ------------------------------------------------------------------------
QueryWords == {"Medicine", "sue", "legal", "advice"}

LowerWord(w) == IF w = "Medicine" THEN "medicine" ELSE w

Queries == UNION {[1..n -> QueryWords] : n \in 0..MaxQueryWords}

\* pat.search(query) for the "medical" pattern: one of its alternatives
\* stands as a whole word (\b...\b), case-insensitively (re.I).
MedicalWords == {"medical", "medicine", "prescribe", "diagnos", "symptom", "pill", "dosage"}
LegalWords == {"attorney", "sue", "lawsuit", "contract", "custody", "divorce", "crime"}

MatchesMedical(q) == \E i \in 1..Len(q) : LowerWord(q[i]) \in MedicalWords

MatchesLegal(q) ==
    \/ \E i \in 1..Len(q) : LowerWord(q[i]) \in LegalWords
    \/ \E i \in 1..(Len(q) - 1) :
          LowerWord(q[i]) = "legal" /\ LowerWord(q[i + 1]) = "advice"

\* Mutant of _intent_blocked: only the medical pattern is tried.
_intent_blocked_MedicalOnly(q) ==
    IF MatchesMedical(q) THEN GUIDANCE_KEYS["medical"] ELSE ""

\* _intent_blocked: the patterns are tried in dict order, medical first.
\* The result is the guidance key, or "" for Python's None.
_intent_blocked(q) ==
    IF MatchesMedical(q) THEN GUIDANCE_KEYS["medical"]
    ELSE IF MatchesLegal(q) THEN GUIDANCE_KEYS["legal"]
    ELSE ""

\* Mutant of _enforce_asr: <= in place of <.
_enforce_asr_Inclusive(asr) ==
    IF IsNone(asr) THEN ""
    ELSE IF asr.n <= ASR_CONF_THRESHOLD THEN GUIDANCE_KEYS["asr_low_confidence"]
    ELSE ""

\* _enforce_asr: asr is None or Num(hundredths).
_enforce_asr(asr) ==
    IF IsNone(asr) THEN ""
    ELSE IF asr.n < ASR_CONF_THRESHOLD THEN GUIDANCE_KEYS["asr_low_confidence"]
    ELSE ""

\* ------------------------------------------------------------------------
\* Request events
\* ------------------------------------------------------------------------
RequestIdValues == {None, Str("req-1")}
LanguageValues == {None, Str("en"), Str(" TA "), Str("fr"), Num(7)}
ChannelValues == {None, Str("web"), Str("sms"), Str(" Voice "), Str("fax")}
AsrValues == {None, Str("n/a"), Str("0.2"), Num(20), Num(75)}
TopKValues == {None, Num(1)}
FiltersValues == {None, Lst}

Events ==
    [request_id : RequestIdValues, language : LanguageValues,
     channel : ChannelValues, query : Queries, asr_confidence : AsrValues,
     top_k : TopKValues, filters : FiltersValues]

NoEvent ==
    [request_id |-> None, language |-> None, channel |-> None, query |-> <<>>,
     asr_confidence |-> None, top_k |-> None, filters |-> None]

\* ev.get("request_id") or f"r-{int(time.time() * 1000)}"
RequestIdOf(ev) ==
    IF IsStr(ev.request_id) THEN ev.request_id.v ELSE GeneratedRequestId

\* float(asr_conf) if asr_conf is not None else None, None on exception.
AsrOf(ev) ==
    IF IsNum(ev.asr_confidence) THEN ev.asr_confidence
    ELSE IF IsStr(ev.asr_confidence) THEN ParseFloatTable[ev.asr_confidence.v]
    ELSE None

\* (ev.get(k) or "").strip().lower(); a non-string truthy value has no
\* strip() and makes the call raise.
FieldRaises(x) == IsNum(x)
FieldText(x) == IF IsStr(x) THEN StripLower(x.v) ELSE ""

\* _validate_request_shape: kind "raise" (AttributeError), "error" or "ok".
_validate_request_shape(ev) ==
    LET req_id == RequestIdOf(ev)
        language == FieldText(ev.language)
        channel == FieldText(ev.channel)
        asr_conf == IF channel = "voice" THEN AsrOf(ev) ELSE None
    IN  IF FieldRaises(ev.language) \/ FieldRaises(ev.channel)
        THEN [kind |-> "raise"]
        ELSE IF language \notin ALLOWED_LANGUAGES
        THEN [kind |-> "error", error |-> "invalid_language", request_id |-> req_id]
        ELSE IF channel \notin ALLOWED_CHANNELS
        THEN [kind |-> "error", error |-> "invalid_channel", request_id |-> req_id]
        ELSE IF ev.query = <<>>
        THEN [kind |-> "error", error |-> "empty_query", request_id |-> req_id]
        ELSE IF channel = "voice" /\ IsNone(asr_conf)
        THEN [kind |-> "error", error |-> "missing_asr_confidence", request_id |-> req_id]
        ELSE [kind |-> "ok", request_id |-> req_id, language |-> language,
              channel |-> channel, query |-> ev.query, top_k |-> ev.top_k,
              asr_confidence |-> asr_conf]

\* ------------------------------------------------------------------------
\* core/retriever.py
\* ------------------------------------------------------------------------
RAW_K == 50
FINAL_K == 5

\* Rows of the vector table as a query sees them: chunk_id n stands for the
\* id "<doc>_c000n" (string order = numeric order), distance is the pgvector
\* distance of the row to the query embedding.
TableRows ==
    { [chunk_id |-> 1, text |-> "Apply online", trust |-> "gov",
       source_url |-> "https://gov/a", distance |-> 0],
      [chunk_id |-> 2, text |-> "apply  ONLINE", trust |-> "News",
       source_url |-> "https://news/a", distance |-> 25],
      [chunk_id |-> 3, text |-> "Visit office", trust |-> "ngo",
       source_url |-> "https://ngo/b", distance |-> 25] }

\* What pgvector_search can return: distinct rows, nearest first, at most
\* raw_k of them (ORDER BY embedding <-> q LIMIT raw_k).
CandidateLists(rows, raw_k) ==
    LET lim == IF raw_k < MaxCands THEN raw_k ELSE MaxCands
    IN  {s \in UNION {[1..n -> rows] : n \in 0..lim} :
            /\ \A i, j \in 1..Len(s) : i # j => s[i].chunk_id # s[j].chunk_id
            /\ \A i \in 1..(Len(s) - 1) : s[i].distance <= s[i + 1].distance}

\* _normalize_text_key: NFKC, lower(), whitespace collapsed and stripped; the
\* sha256 of the result is represented by the normalized text itself.
_normalize_text_key(s) ==
    CASE s = "Apply online" -> "apply online"
      [] s = "apply  ONLINE" -> "apply online"
      [] s = "Visit office" -> "visit office"
      [] s = "Call helpline" -> "call helpline"
      [] s = "call\thelpline " -> "call helpline"
      [] s = "Read notice" -> "read notice"
      [] OTHER -> ""

\* compute_similarity_from_distance: 1/(1+distance), in hundredths.
compute_similarity_from_distance(distance) == 10000 \div (100 + distance)

\* trust_weight_for: weight of meta.trust_level (lower-cased), in hundredths.
LowerTrust(tl) == IF tl = "News" THEN "news" ELSE tl

trust_weight_for(tl) ==
    LET k == LowerTrust(tl)
    IN  CASE k \in {"gov", "government"} -> 100
          [] k \in {"implementing_agency", "agency"} -> 95
          [] k = "ngo" -> 80
          [] k = "news" -> 60
          [] OTHER -> 100

\* dedupe_candidates_keep_nearest: first occurrence of each text key; the
\* loop stops once max_keep are kept (the test follows the append).
RECURSIVE DedupeFrom(_, _, _, _)
DedupeFrom(cands, i, deduped, max_keep) ==
    IF i > Len(cands) THEN deduped
    ELSE IF \E j \in 1..Len(deduped) :
                _normalize_text_key(deduped[j].text) = _normalize_text_key(cands[i].text)
         THEN DedupeFrom(cands, i + 1, deduped, max_keep)
         ELSE IF Len(deduped) + 1 >= max_keep
              THEN Append(deduped, cands[i])
              ELSE DedupeFrom(cands, i + 1, Append(deduped, cands[i]), max_keep)

dedupe_candidates_keep_nearest(cands, max_keep) == DedupeFrom(cands, 1, <<>>, max_keep)

\* The score fields re_rank_and_select stores on a candidate.
Scored(c) ==
    LET sim == compute_similarity_from_distance(c.distance)
        tw == trust_weight_for(c.trust)
    IN  [chunk_id |-> c.chunk_id, text |-> c.text, trust |-> c.trust,
         source_url |-> c.source_url, distance |-> c.distance,
         similarity |-> sim, trust_weight |-> tw, final_score |-> sim * tw]

\* The sort key (-final_score, -similarity, chunk_id): a sorts before b.
RankBefore(a, b) ==
    \/ a.final_score > b.final_score
    \/ a.final_score = b.final_score /\ a.similarity > b.similarity
    \/ a.final_score = b.final_score /\ a.similarity = b.similarity
          /\ a.chunk_id < b.chunk_id

\* list.sort is stable: x goes after every element that does not sort
\* strictly after it.
RECURSIVE InsertRanked(_, _)
InsertRanked(sorted, x) ==
    IF sorted = <<>> THEN <<x>>
    ELSE IF RankBefore(x, Head(sorted)) THEN <<x>> \o sorted
    ELSE <<Head(sorted)>> \o InsertRanked(Tail(sorted), x)

RECURSIVE SortRanked(_)
SortRanked(s) ==
    IF s = <<>> THEN <<>>
    ELSE InsertRanked(SortRanked(SubSeq(s, 1, Len(s) - 1)), s[Len(s)])

\* scored[:final_k]: a negative final_k counts from the end of the list.
SliceEnd(n, final_k) ==
    IF final_k >= 0 THEN (IF final_k < n THEN final_k ELSE n)
    ELSE (IF n + final_k > 0 THEN n + final_k ELSE 0)

re_rank_and_select(cands, final_k) ==
    LET scored == SortRanked([i \in 1..Len(cands) |-> Scored(cands[i])])
    IN  SubSeq(scored, 1, SliceEnd(Len(scored), final_k))

\* int(event.get("top_k") or FINAL_K), int(event.get("raw_k") or RAW_K)
TopKOf(top_k) == IF IsNum(top_k) /\ top_k.n # 0 THEN top_k.n ELSE FINAL_K
RawKOf(raw_k) == IF IsNum(raw_k) /\ raw_k.n # 0 THEN raw_k.n ELSE RAW_K

\* Step 5 of retrieve: passages numbered from 1 in rank order.
FormatPassages(ranked) ==
    [i \in 1..Len(ranked) |->
        [number |-> i, chunk_id |-> ranked[i].chunk_id, text |-> ranked[i].text,
         meta |-> ranked[i].trust, source_url |-> ranked[i].source_url,
         score |-> ranked[i].final_score, distance |-> ranked[i].distance]]

RetrievalResult(passages, err) ==
    [passages |-> passages,
     chunk_ids |-> [i \in 1..Len(passages) |-> passages[i].chunk_id],
     top_similarity |-> IF passages = <<>> THEN 0 ELSE passages[1].score,
     error |-> err]

NoRetrieval == RetrievalResult(<<>>, "not_called")

\* filters.keys() of a filters value that is a non-empty list raises.
RetrieveRaises(filters) == filters.t = "list"

\* retrieve, for an event whose query is not empty.  embOk: the embedder
\* call succeeded; dbOk: the vector-store query succeeded; cands: its rows.
retrieve(top_k, raw_k, embOk, dbOk, cands) ==
    IF ~embOk THEN RetrievalResult(<<>>, "embed_failed")
    ELSE IF ~dbOk THEN RetrievalResult(<<>>, "vector_search_failed")
    ELSE IF cands = <<>> THEN RetrievalResult(<<>>, "")
    ELSE LET deduped == dedupe_candidates_keep_nearest(cands, RawKOf(raw_k))
             ranked == re_rank_and_select(deduped, TopKOf(top_k))
         IN  RetrievalResult(FormatPassages(ranked), "")

\* _top_similarity_from_retrieval
_top_similarity_from_retrieval(res) == res.top_similarity

\* ------------------------------------------------------------------------
\* core/generator.py
\* ------------------------------------------------------------------------
BEDROCK_MAX_RETRIES == 1

\* Generator text is a sequence of lines (the text split at newlines), a
\* line is a sequence of segments.  " " is a run of whitespace, the others
\* are pieces of text without whitespace at their ends; "Apply [n]" ends
\* with the citation of passage n, "see HTTPS://gov [1]" holds a URL in
\* upper case before its citation.
CitationTokens == {"Apply [0]", "Apply [1]", "Apply [2]", "see HTTPS://gov [1]"}
Tokens == {"Apply", " ", "NOT_ENOUGH_INFORMATION"} \cup CitationTokens

LinesUpTo(len) == UNION {[1..n -> Tokens] : n \in 0..len}
RawOutputs(maxLines, maxLen) == UNION {[1..n -> LinesUpTo(maxLen)] : n \in 0..maxLines}

DISALLOWED_SUBSTRINGS == {"http://", "https://", "www.", "file://"}

\* ln.lower()
LowerToken(tok) ==
    CASE tok = "see HTTPS://gov [1]" -> "see https://gov [1]"
      [] tok = "Apply" -> "apply"
      [] tok = "Apply [0]" -> "apply [0]"
      [] tok = "Apply [1]" -> "apply [1]"
      [] tok = "Apply [2]" -> "apply [2]"
      [] tok = "NOT_ENOUGH_INFORMATION" -> "not_enough_information"
      [] OTHER -> tok

\* s in tok (case-sensitive substring test)
Occurs(s, tok) == s = "https://" /\ tok = "see https://gov [1]"

\* int(m.group(1)) for a segment that ends with a citation, -1 for one
\* that does not.
CitationNumber(tok) ==
    CASE tok = "Apply [0]" -> 0
      [] tok = "Apply [1]" -> 1
      [] tok = "Apply [2]" -> 2
      [] tok = "see HTTPS://gov [1]" -> 1
      [] OTHER -> -1

\* ln.strip()
RECURSIVE LStrip(_)
LStrip(ln) == IF ln # <<>> /\ Head(ln) = " " THEN LStrip(Tail(ln)) ELSE ln

RECURSIVE RStrip(_)
RStrip(ln) ==
    IF ln # <<>> /\ ln[Len(ln)] = " " THEN RStrip(SubSeq(ln, 1, Len(ln) - 1)) ELSE ln

StripLine(ln) == RStrip(LStrip(ln))

\* raw.strip(): blank lines at both ends go, the first line left is stripped
\* on its left and the last on its right.
RECURSIVE DropBlankHead(_)
DropBlankHead(raw) ==
    IF raw # <<>> /\ StripLine(Head(raw)) = <<>> THEN DropBlankHead(Tail(raw)) ELSE raw

RECURSIVE DropBlankTail(_)
DropBlankTail(raw) ==
    IF raw # <<>> /\ StripLine(raw[Len(raw)]) = <<>>
    THEN DropBlankTail(SubSeq(raw, 1, Len(raw) - 1)) ELSE raw

StripRaw(raw) ==
    LET core == DropBlankTail(DropBlankHead(raw))
        n == Len(core)
    IN  [i \in 1..n |->
            IF i = 1 /\ i = n THEN StripLine(core[i])
            ELSE IF i = 1 THEN LStrip(core[i])
            ELSE IF i = n THEN RStrip(core[i])
            ELSE core[i]]

\* [ln.strip() for ln in raw.splitlines() if ln.strip()]
RECURSIVE NonEmptyLines(_)
NonEmptyLines(raw) ==
    IF raw = <<>> THEN <<>>
    ELSE IF StripLine(Head(raw)) = <<>> THEN NonEmptyLines(Tail(raw))
    ELSE <<StripLine(Head(raw))>> \o NonEmptyLines(Tail(raw))

\* CITATION_PAT.search(ln): the number of the citation the line ends with
\* (trailing whitespace allowed), -1 when there is no match.
CitationAtEnd(ln) ==
    LET r == RStrip(ln)
    IN  IF r = <<>> THEN -1 ELSE CitationNumber(r[Len(r)])

\* Mutant of HasDisallowed: the line is not lower-cased before the test.
HasDisallowed_CaseSensitive(ln) ==
    \E i \in 1..Len(ln) : \E s \in DISALLOWED_SUBSTRINGS : Occurs(s, ln[i])

\* any(s in lower for s in DISALLOWED_SUBSTRINGS)
HasDisallowed(ln) ==
    \E i \in 1..Len(ln) : \E s \in DISALLOWED_SUBSTRINGS : Occurs(s, LowerToken(ln[i]))

\* The body of the per-line loop of validate_and_parse_output.
LineVerdict(ln, max_pass) ==
    LET cited == CitationAtEnd(ln)
    IN  IF cited = -1 THEN "missing_citation"
        ELSE IF cited < 1 \/ cited > max_pass THEN "citation_out_of_range"
        ELSE IF HasDisallowed(ln) THEN "disallowed_substring"
        ELSE "ok"

\* max((int(p.get("number", 0)) for p in passages), default=0)
MaxPass(passages) ==
    IF passages = <<>> THEN 0
    ELSE CHOOSE m \in {passages[i].number : i \in 1..Len(passages)} :
            \A i \in 1..Len(passages) : passages[i].number <= m

InvalidOutput == [decision |-> "INVALID_OUTPUT", answer_lines |-> <<>>, confidence |-> ""]
NotEnoughInformation ==
    [decision |-> "NOT_ENOUGH_INFORMATION", answer_lines |-> <<>>, confidence |-> ""]

\* Mutant of validate_and_parse_output: a failing line is dropped instead
\* of invalidating the output.
validate_and_parse_output_SkipBadLines(raw, passages) ==
    LET stripped == StripRaw(raw)
        lines == NonEmptyLines(stripped)
        max_pass == MaxPass(passages)
        good == SelectSeq(lines, LAMBDA ln : LineVerdict(ln, max_pass) = "ok")
    IN  IF stripped = <<>> THEN InvalidOutput
        ELSE IF stripped = << <<"NOT_ENOUGH_INFORMATION">> >> THEN NotEnoughInformation
        ELSE IF max_pass < 1 \/ good = <<>> THEN InvalidOutput
        ELSE [decision |-> "ACCEPT", answer_lines |-> good, confidence |-> "high"]

validate_and_parse_output(raw, passages) ==
    LET stripped == StripRaw(raw)
        lines == NonEmptyLines(stripped)
        max_pass == MaxPass(passages)
    IN  IF stripped = <<>> THEN InvalidOutput
        ELSE IF stripped = << <<"NOT_ENOUGH_INFORMATION">> >> THEN NotEnoughInformation
        ELSE IF lines = <<>> THEN InvalidOutput
        ELSE IF max_pass < 1 THEN InvalidOutput
        ELSE IF \E i \in 1..Len(lines) : LineVerdict(lines[i], max_pass) # "ok"
        THEN InvalidOutput
        ELSE [decision |-> "ACCEPT", answer_lines |-> lines, confidence |-> "high"]

\* call_bedrock: attempts[i] tells whether invoke_model succeeds at attempt
\* i; at most BEDROCK_MAX_RETRIES + 1 attempts are made.  TRUE when some
\* attempt returned the model text, FALSE when the last exception is raised.
BedrockOutcomes == [1..(BEDROCK_MAX_RETRIES + 1) -> BOOLEAN]

RECURSIVE BedrockLoop(_, _)
BedrockLoop(attempts, attempt) ==
    IF attempt > BEDROCK_MAX_RETRIES THEN FALSE
    ELSE IF attempts[attempt + 1] THEN TRUE
    ELSE BedrockLoop(attempts, attempt + 1)

call_bedrock(clientOk, attempts) == clientOk /\ BedrockLoop(attempts, 0)

\* generate, for a request with language, question and passages present.
generate(passages, clientOk, attempts, raw) ==
    IF passages = <<>> THEN InvalidOutput
    ELSE IF ~call_bedrock(clientOk, attempts) THEN InvalidOutput
    ELSE validate_and_parse_output(raw, passages)

\* ------------------------------------------------------------------------
\* core/query.py: the orchestrator as a process
\* ------------------------------------------------------------------------
\* Generator texts the orchestrator's runs are explored with: up to
\* GenMaxLines lines of one segment each.
SegmentLines == {<<tok>> : tok \in Tokens}
GenRawOutputs == UNION {[1..n -> SegmentLines] : n \in 0..GenMaxLines}

VARIABLES
    pc,            \* position of the request in handler/handle
    event,         \* the request event being served
    validated,     \* result of _validate_request_shape
    retr_res,      \* result of retriever.retrieve
    gen_res,       \* result of generator.generate
    gen_upstream,  \* "none", "ok" or "failed": how the generator's model call ended
    pending,       \* response and audit record built by the branch taken
    response,      \* the response returned to the caller
    calls,         \* collaborators called for this request, in call order
    auditLog,      \* _write_audit calls of this request with their outcome
    _s3_client,    \* module global: cached S3 client, "none" when absent
    AUDIT_S3_BUCKET, \* TRUE when an audit bucket is configured
    v_raw,         \* validate_and_parse_output on its own: the raw text,
    v_k,           \*   the number of passages (numbered 1..v_k),
    v_out,         \*   and the result
    r_in,          \* retrieve on its own: candidate rows, top_k and raw_k,
    r_out,         \*   and the passages returned
    objects,       \* object store of the chunker: key -> stored bytes
    writer,        \* parse_file runs: position and locals of each run
    now,           \* the wall clock read by now_ts()
    table,         \* rows of the vector table, in insertion order
    indexer,       \* embed_and_index.main runs: position and locals of each
    windower,      \* split_into_windows inside parse_file: inputs, cursor, windows
    handles        \* cached module-level handles and the threads initializing them

vars == <<pc, event, validated, retr_res, gen_res, gen_upstream, pending, response,
          calls, auditLog, _s3_client, AUDIT_S3_BUCKET, v_raw, v_k, v_out,
          r_in, r_out, objects, writer, now, table, indexer, windower, handles>>

queryVars == <<pc, event, validated, retr_res, gen_res, gen_upstream, pending, response,
               calls, auditLog, _s3_client, AUDIT_S3_BUCKET>>
validatorVars == <<v_raw, v_k, v_out>>
retrieverVars == <<r_in, r_out>>
chunkerVars == <<objects, writer, now>>
indexerVars == <<table, indexer>>
windowerVars == <<windower>>
handleVars == <<handles>>

\* The parts of the state a specification leaves alone hold these values.
Unused == [unused |-> TRUE]
RetrieverIdle == r_in = Unused /\ r_out = Unused
ChunkerIdle == objects = Unused /\ writer = Unused /\ now = 0
IndexerIdle == table = <<>> /\ indexer = Unused
WindowerIdle == windower = Unused
HandlesIdle == handles = Unused

NoValidated == [kind |-> "none"]
NoGeneration == [decision |-> "none", answer_lines |-> <<>>, confidence |-> ""]
NoResponse == [none |-> TRUE]
NoPending == [res |-> NoResponse, rec |-> NoResponse]
ValidatorIdle == v_raw = <<>> /\ v_k = 0 /\ v_out = NoGeneration

Resolutions == {"answer", "refusal", "not_enough_info", "invalid_output"}

\* The audit record fields the claims are about.
AuditRecord(request_id, resolution) ==
    [request_id |-> request_id, resolution |-> resolution]

Init ==
    /\ pc = "idle"
    /\ event = NoEvent
    /\ validated = NoValidated
    /\ retr_res = NoRetrieval
    /\ gen_res = NoGeneration
    /\ gen_upstream = "none"
    /\ pending = NoPending
    /\ response = NoResponse
    /\ calls = <<>>
    /\ auditLog = <<>>
    /\ _s3_client = "none"
    /\ AUDIT_S3_BUCKET \in BOOLEAN
    /\ ValidatorIdle
    /\ RetrieverIdle
    /\ ChunkerIdle
    /\ IndexerIdle
    /\ WindowerIdle
    /\ HandlesIdle

\* The orchestrator at rest, for the specifications of the other components.
QueryIdle ==
    /\ pc = "idle"
    /\ event = NoEvent
    /\ validated = NoValidated
    /\ retr_res = NoRetrieval
    /\ gen_res = NoGeneration
    /\ gen_upstream = "none"
    /\ pending = NoPending
    /\ response = NoResponse
    /\ calls = <<>>
    /\ auditLog = <<>>
    /\ _s3_client = "none"
    /\ AUDIT_S3_BUCKET = FALSE

\* handler(event, context) is entered with a new event.
Receive ==
    /\ pc = "idle"
    /\ \E ev \in Events : event' = ev
    /\ pc' = "validate"
    /\ UNCHANGED <<validated, retr_res, gen_res, gen_upstream, pending, response, calls,
                   auditLog, _s3_client, AUDIT_S3_BUCKET, validatorVars, retrieverVars, chunkerVars, indexerVars, windowerVars, handleVars>>

\* handle, lines 270-275: shape validation and the invalid-request return.
InvalidRequestResponse(v) ==
    [request_id |-> v.request_id, resolution |-> "refusal",
     guidance_key |-> "invalid_request", reason |-> v.error]

Validate ==
    /\ pc = "validate"
    /\ LET v == _validate_request_shape(event)
       IN  /\ validated' = v
           /\ IF v.kind = "raise"
              THEN pc' = "except" /\ pending' = pending
              ELSE IF v.kind = "error"
              THEN /\ pc' = "return"
                   /\ pending' = [res |-> InvalidRequestResponse(v), rec |-> NoResponse]
              ELSE pc' = "asr" /\ pending' = pending
    /\ UNCHANGED <<event, retr_res, gen_res, gen_upstream, response, calls, auditLog,
                   _s3_client, AUDIT_S3_BUCKET, validatorVars, retrieverVars, chunkerVars, indexerVars, windowerVars, handleVars>>

RefusalResponse(request_id, guidance) ==
    [request_id |-> request_id, resolution |-> "refusal", guidance_key |-> guidance]

\* handle, lines 287-305: ASR gating for voice.
AsrGate ==
    /\ pc = "asr"
    /\ LET asr_refusal == IF validated.channel = "voice"
                          THEN _enforce_asr(validated.asr_confidence) ELSE ""
       IN  IF asr_refusal # ""
           THEN /\ pending' = [res |-> RefusalResponse(validated.request_id, asr_refusal),
                               rec |-> AuditRecord(validated.request_id, "refusal")]
                /\ pc' = "audit"
           ELSE pc' = "intent" /\ pending' = pending
    /\ UNCHANGED <<event, validated, retr_res, gen_res, gen_upstream, response, calls,
                   auditLog, _s3_client, AUDIT_S3_BUCKET, validatorVars, retrieverVars, chunkerVars, indexerVars, windowerVars, handleVars>>

\* handle, lines 307-323: intent blocklist.
IntentGate ==
    /\ pc = "intent"
    /\ LET guidance == _intent_blocked(validated.query)
       IN  IF guidance # ""
           THEN /\ pending' = [res |-> RefusalResponse(validated.request_id, guidance),
                               rec |-> AuditRecord(validated.request_id, "refusal")]
                /\ pc' = "audit"
           ELSE pc' = "retrieve" /\ pending' = pending
    /\ UNCHANGED <<event, validated, retr_res, gen_res, gen_upstream, response, calls,
                   auditLog, _s3_client, AUDIT_S3_BUCKET, validatorVars, retrieverVars, chunkerVars, indexerVars, windowerVars, handleVars>>

\* handle, lines 325-351: the retriever call and its exception branch.
Retrieve ==
    /\ pc = "retrieve"
    /\ calls' = Append(calls, "retrieve")
    /\ IF RetrieveRaises(event.filters)
       THEN /\ pending' = [res |-> [request_id |-> validated.request_id,
                                    resolution |-> "invalid_output",
                                    error |-> "retrieval_failed"],
                           rec |-> AuditRecord(validated.request_id, "invalid_output")]
            /\ pc' = "audit"
            /\ retr_res' = retr_res
       ELSE /\ \E embOk \in BOOLEAN, dbOk \in BOOLEAN, cands \in CandidateLists(TableRows, RAW_K) :
                  retr_res' = retrieve(validated.top_k, None, embOk, dbOk, cands)
            /\ pc' = "gate"
            /\ pending' = pending
    /\ UNCHANGED <<event, validated, gen_res, gen_upstream, response, auditLog,
                   _s3_client, AUDIT_S3_BUCKET, validatorVars, retrieverVars, chunkerVars, indexerVars, windowerVars, handleVars>>

\* Mutant of GateOutcome: the minimum-similarity gate is missing.
GateOutcome_NoSimilarityGate(res) ==
    IF res.passages = <<>> THEN "no_candidates" ELSE "pass"

\* handle, lines 357-390: no candidates, and the minimum-similarity gate.
GateOutcome(res) ==
    IF res.passages = <<>> THEN "no_candidates"
    ELSE IF _top_similarity_from_retrieval(res) < MIN_SIMILARITY THEN "too_low_similarity"
    ELSE "pass"

Gate ==
    /\ pc = "gate"
    /\ LET g == GateOutcome(retr_res)
       IN  IF g = "no_candidates"
           THEN /\ pending' = [res |-> [request_id |-> validated.request_id,
                                        resolution |-> "not_enough_info"],
                               rec |-> AuditRecord(validated.request_id, "not_enough_info")]
                /\ pc' = "audit"
           ELSE IF g = "too_low_similarity"
           THEN /\ pending' = [res |-> [request_id |-> validated.request_id,
                                        resolution |-> "not_enough_info",
                                        top_similarity |-> retr_res.top_similarity],
                               rec |-> AuditRecord(validated.request_id, "not_enough_info")]
                /\ pc' = "audit"
           ELSE pc' = "generate" /\ pending' = pending
    /\ UNCHANGED <<event, validated, retr_res, gen_res, gen_upstream, response, calls,
                   auditLog, _s3_client, AUDIT_S3_BUCKET, validatorVars, retrieverVars, chunkerVars, indexerVars, windowerVars, handleVars>>

\* handle, lines 392-417: the generator call.
Generate ==
    /\ pc = "generate"
    /\ calls' = Append(calls, "generate")
    /\ \E clientOk \in BOOLEAN, attempts \in BedrockOutcomes :
          \E raw \in IF call_bedrock(clientOk, attempts) THEN GenRawOutputs ELSE {<<>>} :
             /\ gen_res' = generate(retr_res.passages, clientOk, attempts, raw)
             /\ gen_upstream' = IF call_bedrock(clientOk, attempts) THEN "ok" ELSE "failed"
    /\ pc' = "interpret"
    /\ UNCHANGED <<event, validated, retr_res, pending, response, auditLog,
                   _s3_client, AUDIT_S3_BUCKET, validatorVars, retrieverVars, chunkerVars, indexerVars, windowerVars, handleVars>>

\* Mutant of _hydrate_citation_metadata: citations are numbered from 0.
_hydrate_citation_metadata_ZeroBased(passages) ==
    [i \in 1..Len(passages) |->
        [citation |-> passages[i].number - 1, chunk_id |-> passages[i].chunk_id,
         source_url |-> passages[i].source_url, meta |-> passages[i].meta]]

\* _hydrate_citation_metadata
_hydrate_citation_metadata(passages) ==
    [i \in 1..Len(passages) |->
        [citation |-> passages[i].number, chunk_id |-> passages[i].chunk_id,
         source_url |-> passages[i].source_url, meta |-> passages[i].meta]]

\* Mutant of InterpretResolution: a decision other than ACCEPT and
\* NOT_ENOUGH_INFORMATION is passed through as the resolution.
InterpretResolution_PassThrough(g) ==
    IF g.decision = "NOT_ENOUGH_INFORMATION" THEN "not_enough_info"
    ELSE IF g.decision # "ACCEPT" THEN g.decision
    ELSE IF g.answer_lines = <<>> THEN "invalid_output"
    ELSE "answer"

\* handle, lines 422-487: the resolution chosen for a generator result.
InterpretResolution(g) ==
    IF g.decision = "NOT_ENOUGH_INFORMATION" THEN "not_enough_info"
    ELSE IF g.decision # "ACCEPT" THEN "invalid_output"
    ELSE IF g.answer_lines = <<>> THEN "invalid_output"
    ELSE "answer"

Interpret ==
    /\ pc = "interpret"
    /\ LET resolution == InterpretResolution(gen_res)
           res == IF resolution = "answer"
                  THEN [request_id |-> validated.request_id, resolution |-> "answer",
                        answer_lines |-> gen_res.answer_lines,
                        citations |-> _hydrate_citation_metadata(retr_res.passages),
                        confidence |-> gen_res.confidence]
                  ELSE [request_id |-> validated.request_id, resolution |-> resolution]
       IN  pending' = [res |-> res, rec |-> AuditRecord(validated.request_id, resolution)]
    /\ pc' = "audit"
    /\ UNCHANGED <<event, validated, retr_res, gen_res, gen_upstream, response, calls,
                   auditLog, _s3_client, AUDIT_S3_BUCKET, validatorVars, retrieverVars, chunkerVars, indexerVars, windowerVars, handleVars>>

\* handler, lines 513-529: handle raised.
HandlerExcept ==
    /\ pc = "except"
    /\ pending' = [res |-> [request_id |-> RequestIdOf(event),
                            resolution |-> "invalid_output",
                            error |-> "handler_exception"],
                   rec |-> AuditRecord(RequestIdOf(event), "invalid_output")]
    /\ pc' = "audit"
    /\ UNCHANGED <<event, validated, retr_res, gen_res, gen_upstream, response, calls,
                   auditLog, _s3_client, AUDIT_S3_BUCKET, validatorVars, retrieverVars, chunkerVars, indexerVars, windowerVars, handleVars>>

\* init_s3_client: the cached client, or a new one when creation succeeds.
init_s3_client(cached, createOk) ==
    IF cached # "none" THEN cached
    ELSE IF createOk THEN "client"
    ELSE "none"

\* Mutant of _write_audit: the exception of a failed put is not caught.
_write_audit_Unguarded(bucket, client, putOk) ==
    IF ~bucket THEN "skipped_no_bucket"
    ELSE IF client = "none" THEN "skipped_s3_client_unavailable"
    ELSE IF putOk THEN "written"
    ELSE "raised"

\* _write_audit: the outcome of the write.  Every failure is caught.
_write_audit(bucket, client, putOk) ==
    IF ~bucket THEN "skipped_no_bucket"
    ELSE IF client = "none" THEN "skipped_s3_client_unavailable"
    ELSE IF putOk THEN "written"
    ELSE "write_failed"

WriteAudit ==
    /\ pc = "audit"
    /\ \E createOk \in BOOLEAN, putOk \in BOOLEAN :
          LET client == IF AUDIT_S3_BUCKET
                        THEN init_s3_client(_s3_client, createOk) ELSE _s3_client
              outcome == _write_audit(AUDIT_S3_BUCKET, client, putOk)
          IN  /\ _s3_client' = client
              /\ auditLog' = Append(auditLog,
                    [request_id |-> pending.rec.request_id,
                     resolution |-> pending.rec.resolution, outcome |-> outcome])
              /\ pc' = IF outcome \in {"skipped_no_bucket", "skipped_s3_client_unavailable",
                                       "written", "write_failed"}
                       THEN "return" ELSE "except"
    /\ calls' = Append(calls, "audit")
    /\ UNCHANGED <<event, validated, retr_res, gen_res, gen_upstream, pending, response,
                   AUDIT_S3_BUCKET, validatorVars, retrieverVars, chunkerVars, indexerVars, windowerVars, handleVars>>

\* The return statement of the branch taken.
Return ==
    /\ pc = "return"
    /\ response' = pending.res
    /\ pc' = "done"
    /\ UNCHANGED <<event, validated, retr_res, gen_res, gen_upstream, pending, calls,
                   auditLog, _s3_client, AUDIT_S3_BUCKET, validatorVars, retrieverVars, chunkerVars, indexerVars, windowerVars, handleVars>>

\* The invocation is over: the caller has the response and the locals of
\* handler/handle are gone; the module globals stay.
Finish ==
    /\ pc = "done"
    /\ pc' = "idle"
    /\ event' = NoEvent
    /\ validated' = NoValidated
    /\ retr_res' = NoRetrieval
    /\ gen_res' = NoGeneration
    /\ gen_upstream' = "none"
    /\ pending' = NoPending
    /\ response' = NoResponse
    /\ calls' = <<>>
    /\ auditLog' = <<>>
    /\ UNCHANGED <<_s3_client, AUDIT_S3_BUCKET, validatorVars, retrieverVars, chunkerVars, indexerVars, windowerVars, handleVars>>

Next ==
    \/ Receive
    \/ Validate
    \/ AsrGate
    \/ IntentGate
    \/ Retrieve
    \/ Gate
    \/ Generate
    \/ Interpret
    \/ HandlerExcept
    \/ WriteAudit
    \/ Return
    \/ Finish

Spec == Init /\ [][Next]_vars

TypeOK ==
    /\ pc \in {"idle", "validate", "asr", "intent", "retrieve", "gate", "generate",
               "interpret", "except", "audit", "return", "done"}
    /\ event \in Events \cup {NoEvent}
    /\ _s3_client \in {"none", "client"}
    /\ AUDIT_S3_BUCKET \in BOOLEAN

\* ------------------------------------------------------------------------
\* validate_and_parse_output applied on its own to every bounded text
\* ------------------------------------------------------------------------
PassagesNumbered(k) == [i \in 1..k |-> [number |-> i]]

InitValidate ==
    /\ QueryIdle
    /\ RetrieverIdle
    /\ ChunkerIdle
    /\ IndexerIdle
    /\ WindowerIdle
    /\ HandlesIdle
    /\ v_raw \in RawOutputs(MaxLines, MaxLineLen)
    /\ v_k \in 1..MaxCands
    /\ v_out = NoGeneration

ApplyValidate ==
    /\ v_out = NoGeneration
    /\ v_out' = validate_and_parse_output(v_raw, PassagesNumbered(v_k))
    /\ UNCHANGED <<v_raw, v_k, queryVars, retrieverVars, chunkerVars, indexerVars, windowerVars, handleVars>>

NextValidate == ApplyValidate

SpecValidate == InitValidate /\ [][NextValidate]_vars

\* ------------------------------------------------------------------------
\* retrieve on its own, over every candidate list the vector store can
\* return for a table with ties in score, ties in distance and repeated
\* texts, and over the top_k / raw_k values a request can carry.
\* ------------------------------------------------------------------------
WideTableRows ==
    TableRows \cup
    { [chunk_id |-> 4, text |-> "Call helpline", trust |-> "gov",
       source_url |-> "https://gov/c", distance |-> 25],
      [chunk_id |-> 5, text |-> "Read notice", trust |-> "ngo",
       source_url |-> "https://ngo/d", distance |-> 0],
      [chunk_id |-> 6, text |-> "call\thelpline ", trust |-> "gov",
       source_url |-> "https://gov/e", distance |-> 25] }

TopKRequests == {None, Num(1), Num(2), Num(-1)}
RawKRequests == {None, Num(1), Num(-1)}

\* LIMIT with a negative raw_k is an error of the vector store.
SearchFails(raw_k) == RawKOf(raw_k) < 0

InitRetrieve ==
    /\ QueryIdle
    /\ ValidatorIdle
    /\ ChunkerIdle
    /\ IndexerIdle
    /\ WindowerIdle
    /\ HandlesIdle
    /\ \E top_k \in TopKRequests, raw_k \in RawKRequests :
          \E cands \in IF SearchFails(raw_k) THEN {<<>>}
                        ELSE CandidateLists(WideTableRows, RawKOf(raw_k)) :
             r_in = [cands |-> cands, top_k |-> top_k, raw_k |-> raw_k]
    /\ r_out = Unused

ApplyRetrieve ==
    /\ r_out = Unused
    /\ r_out' = retrieve(r_in.top_k, r_in.raw_k, TRUE, ~SearchFails(r_in.raw_k), r_in.cands)
    /\ UNCHANGED <<r_in, queryVars, validatorVars, chunkerVars, indexerVars, windowerVars, handleVars>>

NextRetrieve == ApplyRetrieve

SpecRetrieve == InitRetrieve /\ [][NextRetrieve]_vars

\* ------------------------------------------------------------------------
\* indexing_pipeline/ELT/parse_chunk_store/_html.py: parse_file and the
\* materialization of its chunks, for one raw document and two runs of
\* parse_file that may follow each other or overlap.
\*
\* The object store holds the chunk file and the raw manifest under their
\* final keys and one temp key per final key and run.  Stored bytes are a
\* record of what they encode; an object a failed put left behind may be
\* partial.
\* ------------------------------------------------------------------------
MaxTime == 1
PUT_RETRIES == 3
FORCE_PROCESS == FALSE

Writers == {1, 2}
FinalKeys == {"chunks.jsonl", "manifest.json"}
TempKey(final_key, w) ==
    CASE final_key = "chunks.jsonl" /\ w = 1 -> "chunks.jsonl.tmp.1"
      [] final_key = "chunks.jsonl" /\ w = 2 -> "chunks.jsonl.tmp.2"
      [] final_key = "manifest.json" /\ w = 1 -> "manifest.json.tmp.1"
      [] OTHER -> "manifest.json.tmp.2"
Keys == FinalKeys \cup {TempKey(k, w) : k \in FinalKeys, w \in Writers}

Absent == [absent |-> TRUE]
Stored(data) == [data |-> data, partial |-> FALSE]
Partial(data) == [data |-> data, partial |-> TRUE]

\* The chunk JSONL of the document: every chunk carries ingest_time =
\* now_ts(), the rest is a function of the raw bytes and the parameters.
ChunkJsonl(t) == [document |-> "D", ingest_time |-> t]

\* compute_sha256_bytes: injective on the byte strings of the model.
compute_sha256_bytes(b) == [sha256_of |-> b]

\* The manifest as extended with the chunked subdocument.
ManifestWith(sha) == [chunked_sha256 |-> sha]

NoJsonl == ChunkJsonl(-1)
IdleWriter ==
    [pc |-> "idle", jsonl |-> NoJsonl, final_key |-> "", attempt |-> 0,
     wrote |-> FALSE, fault |-> FALSE, stored |-> FALSE, sequel |-> FALSE,
     after_partial |-> FALSE, before |-> Absent, outcome |-> ""]

InitChunker ==
    /\ QueryIdle
    /\ ValidatorIdle
    /\ RetrieverIdle
    /\ IndexerIdle
    /\ WindowerIdle
    /\ HandlesIdle
    /\ objects = [k \in Keys |-> Absent]
    /\ writer = [w \in Writers |-> IdleWriter]
    /\ now = 0

\* The clock advances between any two steps.
Tick ==
    /\ now < MaxTime
    /\ now' = now + 1
    /\ UNCHANGED <<objects, writer, queryVars, validatorVars, retrieverVars, indexerVars, windowerVars, handleVars>>

Other(w) == CHOOSE v \in Writers : v # w
Running(w) == writer[w].pc \notin {"idle", "done", "crashed"}
FinalObjects == [k \in FinalKeys |-> objects[k]]

\* The other run has ended, by a crash or an error, after its chunk file
\* reached the final key and before the manifest recorded its sha.
PartiallyMaterialized(v) ==
    /\ writer[v].pc = "crashed" \/ (writer[v].pc = "done" /\ writer[v].outcome = "error")
    /\ writer[v].stored
    /\ objects["chunks.jsonl"] = Stored(writer[v].jsonl)
    /\ \/ objects["manifest.json"] = Absent
       \/ objects["manifest.json"] # Stored(ManifestWith(compute_sha256_bytes(writer[v].jsonl)))

\* A run of parse_file starts.  sequel: it follows a run that saved its
\* chunks without any storage error, whose chunk file is still there.
\* after_partial: it follows a run that ended partially materialized.
StartParse(w) ==
    /\ writer[w].pc = "idle"
    /\ writer' = [writer EXCEPT ![w] =
          [@ EXCEPT !.pc = "exists",
                    !.sequel = /\ writer[Other(w)].pc = "done"
                               /\ writer[Other(w)].outcome = "saved"
                               /\ ~writer[Other(w)].fault
                               /\ objects["chunks.jsonl"] # Absent,
                    !.after_partial = PartiallyMaterialized(Other(w)),
                    !.before = FinalObjects]]
    /\ UNCHANGED <<objects, now, queryVars, validatorVars, retrieverVars, indexerVars, windowerVars, handleVars>>

\* Mutant of _exists_chunk_for_document: the chunk file is never found.
_exists_chunk_for_document_Never(present, headOk) == FALSE

\* _exists_chunk_for_document: head_object on the chunk-file key; any
\* exception counts as "does not exist".
_exists_chunk_for_document(present, headOk) == headOk /\ present

\* if not FORCE_PROCESS and _exists_chunk_for_document(document_id):
\* return skipped, else go on to next.
SkipIfExists(rec, present, headOk, next) ==
    LET skip == ~FORCE_PROCESS /\ _exists_chunk_for_document(present, headOk)
    IN  [rec EXCEPT !.pc = IF skip THEN "done" ELSE next,
                    !.outcome = IF skip THEN "skipped" ELSE @,
                    !.fault = @ \/ ~headOk]

\* parse_file, lines 485-488: the check before parsing.
SkipExisting(w) ==
    /\ writer[w].pc = "exists"
    /\ \E headOk \in BOOLEAN :
          writer' = [writer EXCEPT ![w] =
             SkipIfExists(@, objects["chunks.jsonl"] # Absent, headOk, "chunking")]
    /\ UNCHANGED <<objects, now, queryVars, validatorVars, retrieverVars, indexerVars, windowerVars, handleVars>>

\* parse_file, lines 496-614: the chunks are assembled, each with
\* ingest_time = now_ts().
AssembleChunks(w) ==
    /\ writer[w].pc = "chunking"
    /\ writer' = [writer EXCEPT ![w] = [@ EXCEPT !.pc = "recheck", !.jsonl = ChunkJsonl(now)]]
    /\ UNCHANGED <<objects, now, queryVars, validatorVars, retrieverVars, indexerVars, windowerVars, handleVars>>

\* parse_file, lines 620-624: the check repeated after parsing.
RaceCheck(w) ==
    /\ writer[w].pc = "recheck"
    /\ \E headOk \in BOOLEAN :
          writer' = [writer EXCEPT ![w] =
             SkipIfExists(@, objects["chunks.jsonl"] # Absent, headOk, "read_manifest")]
    /\ UNCHANGED <<objects, now, queryVars, validatorVars, retrieverVars, indexerVars, windowerVars, handleVars>>

\* _write_chunks_and_extend_raw_manifest, lines 404-420: sha of the JSONL,
\* the manifest is read ({} on any error), and nothing is written when its
\* chunked_sha256 equals the sha.
ReadManifest(w) ==
    /\ writer[w].pc = "read_manifest"
    /\ \E readOk \in BOOLEAN :
          LET sha == compute_sha256_bytes(writer[w].jsonl)
              man == objects["manifest.json"]
              up_to_date == /\ readOk
                            /\ man # Absent
                            /\ man.data.chunked_sha256 = sha
                            /\ ~FORCE_PROCESS
          IN  writer' = [writer EXCEPT ![w] =
                 IF up_to_date
                 THEN [@ EXCEPT !.pc = "done", !.outcome = "up_to_date"]
                 ELSE [@ EXCEPT !.pc = "put", !.final_key = "chunks.jsonl",
                                !.attempt = 1, !.fault = @ \/ ~readOk]]
    /\ UNCHANGED <<objects, now, queryVars, validatorVars, retrieverVars, indexerVars, windowerVars, handleVars>>

\* The bytes _s3_atomic_put is called with: the JSONL text for the chunk
\* file, the extended manifest for the manifest.
PutData(rec) ==
    IF rec.final_key = "chunks.jsonl" THEN rec.jsonl
    ELSE ManifestWith(compute_sha256_bytes(rec.jsonl))

\* _s3_atomic_put, line 113: put_object to the temp key.  A failed put may
\* leave nothing or a partial object under the temp key.
PutObject(w) ==
    /\ writer[w].pc = "put"
    /\ LET rec == writer[w]
           temp_key == TempKey(rec.final_key, w)
       IN  \/ /\ objects' = [objects EXCEPT ![temp_key] = Stored(PutData(rec))]
              /\ writer' = [writer EXCEPT ![w] = [@ EXCEPT !.pc = "copy", !.wrote = TRUE]]
           \/ /\ \E left \in {objects[temp_key], Partial(PutData(rec))} :
                    objects' = [objects EXCEPT ![temp_key] = left]
              /\ writer' = [writer EXCEPT ![w] =
                    [@ EXCEPT !.pc = "cleanup", !.wrote = TRUE, !.fault = TRUE]]
    /\ UNCHANGED <<now, queryVars, validatorVars, retrieverVars, indexerVars, windowerVars, handleVars>>

\* _s3_atomic_put, line 114: copy_object from the temp key to the final key.
CopyObject(w) ==
    /\ writer[w].pc = "copy"
    /\ LET rec == writer[w]
           temp_key == TempKey(rec.final_key, w)
       IN  \/ /\ objects' = [objects EXCEPT ![rec.final_key] = objects[temp_key]]
              /\ writer' = [writer EXCEPT ![w] =
                    [@ EXCEPT !.pc = "delete",
                              !.stored = @ \/ rec.final_key = "chunks.jsonl"]]
           \/ /\ objects' = objects
              /\ writer' = [writer EXCEPT ![w] = [@ EXCEPT !.pc = "cleanup", !.fault = TRUE]]
    /\ UNCHANGED <<now, queryVars, validatorVars, retrieverVars, indexerVars, windowerVars, handleVars>>

\* What follows a successful _s3_atomic_put: the manifest write after the
\* chunk file (lines 431-457), the return of parse_file after the manifest.
OnPutReturned(rec) ==
    IF rec.final_key = "chunks.jsonl"
    THEN [rec EXCEPT !.pc = "put", !.final_key = "manifest.json", !.attempt = 1]
    ELSE [rec EXCEPT !.pc = "done", !.outcome = "saved"]

\* _s3_atomic_put, lines 115-116: delete_object of the temp key, return.
DeleteTemp(w) ==
    /\ writer[w].pc = "delete"
    /\ LET rec == writer[w]
           temp_key == TempKey(rec.final_key, w)
       IN  \/ /\ objects' = [objects EXCEPT ![temp_key] = Absent]
              /\ writer' = [writer EXCEPT ![w] = OnPutReturned(rec)]
           \/ /\ objects' = objects
              /\ writer' = [writer EXCEPT ![w] = [@ EXCEPT !.pc = "cleanup", !.fault = TRUE]]
    /\ UNCHANGED <<now, queryVars, validatorVars, retrieverVars, indexerVars, windowerVars, handleVars>>

\* Mutant of MayRetry: one attempt more.
MayRetry_OneMore(attempt) == attempt <= PUT_RETRIES

\* _s3_atomic_put, line 124: if attempt < PUT_RETRIES: ... continue
MayRetry(attempt) == attempt < PUT_RETRIES

\* Mutant of OnPutRaised: after a failed chunk-file write the manifest is
\* written all the same.
OnPutRaised_WriteManifest(rec) ==
    IF rec.final_key = "chunks.jsonl"
    THEN [rec EXCEPT !.pc = "put", !.final_key = "manifest.json", !.attempt = 1]
    ELSE [rec EXCEPT !.pc = "done", !.outcome = "error"]

\* _s3_atomic_put raises its last exception: the callers re-raise and
\* parse_file returns with an error (lines 425-427, 456-458, 629-632).
OnPutRaised(rec) == [rec EXCEPT !.pc = "done", !.outcome = "error"]

\* _s3_atomic_put, lines 117-127: best-effort delete of the temp key, then
\* the next attempt or the raise.
Cleanup(w) ==
    /\ writer[w].pc = "cleanup"
    /\ LET rec == writer[w]
           temp_key == TempKey(rec.final_key, w)
       IN  /\ \E deleted \in BOOLEAN :
                 objects' = IF deleted THEN [objects EXCEPT ![temp_key] = Absent] ELSE objects
           /\ writer' = [writer EXCEPT ![w] =
                 IF MayRetry(rec.attempt)
                 THEN [rec EXCEPT !.pc = "put", !.attempt = @ + 1]
                 ELSE OnPutRaised(rec)]
    /\ UNCHANGED <<now, queryVars, validatorVars, retrieverVars, indexerVars, windowerVars, handleVars>>

\* The process is interrupted in the middle of _s3_atomic_put.
Interrupt(w) ==
    /\ writer[w].pc \in {"put", "copy", "delete", "cleanup"}
    /\ writer' = [writer EXCEPT ![w] = [@ EXCEPT !.pc = "crashed", !.fault = TRUE]]
    /\ UNCHANGED <<objects, now, queryVars, validatorVars, retrieverVars, indexerVars, windowerVars, handleVars>>

\* An operator deletes the chunk file between two runs.
DeleteChunkFile ==
    /\ \A w \in Writers : ~Running(w)
    /\ \E w \in Writers : writer[w].pc = "idle"
    /\ objects["chunks.jsonl"] # Absent
    /\ objects' = [objects EXCEPT !["chunks.jsonl"] = Absent]
    /\ UNCHANGED <<writer, now, queryVars, validatorVars, retrieverVars, indexerVars, windowerVars, handleVars>>

NextChunker ==
    \/ Tick
    \/ DeleteChunkFile
    \/ \E w \in Writers :
          \/ StartParse(w)
          \/ SkipExisting(w)
          \/ AssembleChunks(w)
          \/ RaceCheck(w)
          \/ ReadManifest(w)
          \/ PutObject(w)
          \/ CopyObject(w)
          \/ DeleteTemp(w)
          \/ Cleanup(w)
          \/ Interrupt(w)

SpecChunker == InitChunker /\ [][NextChunker]_vars

\* ------------------------------------------------------------------------
\* indexing_pipeline/embed_and_index.py: main with the pgvector backend,
\* for two runs over the same chunk files that may follow each other or
\* overlap.  EMBED_BATCH_SIZE is set to 2 so that files of a few lines fill
\* a batch.  A row of the table is represented by its chunk_id.
\* ------------------------------------------------------------------------
MaxFileLines == 2
BATCH_SIZE == 2

\* Lines of a chunk file: a well-formed chunk, a line that is no JSON, and
\* a JSON object that lacks a required key.
JsonlLines ==
    { [kind |-> "chunk", chunk_id |-> "c1"],
      [kind |-> "chunk", chunk_id |-> "c2"],
      [kind |-> "not_json", chunk_id |-> ""],
      [kind |-> "missing_keys", chunk_id |-> "c9"] }

\* The chunk files under the prefix: a first file of up to MaxFileLines
\* lines and a second file of one line.
ChunkFiles ==
    { <<f1, <<l2>> >> : f1 \in UNION {[1..n -> JsonlLines] : n \in 0..MaxFileLines},
                        l2 \in JsonlLines }

\* stream_jsonl_objects_from_s3: the objects a file yields; a line that
\* json.loads rejects is logged and dropped.
RECURSIVE stream_jsonl_objects_from_s3(_)
stream_jsonl_objects_from_s3(lines) ==
    IF lines = <<>> THEN <<>>
    ELSE IF Head(lines).kind = "not_json" THEN stream_jsonl_objects_from_s3(Tail(lines))
    ELSE <<Head(lines)>> \o stream_jsonl_objects_from_s3(Tail(lines))

\* normalize_and_validate_chunk: None (FALSE) when a required key or both
\* ingest_time and timestamp are missing.
normalize_and_validate_chunk(obj) == obj.kind = "chunk"

\* pg_doc_exists: SELECT 1 ... WHERE chunk_id = %s; False on any error.
pg_doc_exists(rows, chunk_id, queryOk) ==
    queryOk /\ \E i \in 1..Len(rows) : rows[i] = chunk_id

\* Mutant of InsertRow: a plain INSERT without the conflict clause on a
\* table without the primary key.
InsertRow_NoConflictClause(rows, chunk_id) == Append(rows, chunk_id)

\* INSERT ... ON CONFLICT (chunk_id) DO NOTHING
InsertRow(rows, chunk_id) ==
    IF \E i \in 1..Len(rows) : rows[i] = chunk_id THEN rows ELSE Append(rows, chunk_id)

\* pg_insert_batch: one INSERT per document of the batch (autocommit).
RECURSIVE pg_insert_batch(_, _)
pg_insert_batch(rows, docs) ==
    IF docs = <<>> THEN rows
    ELSE pg_insert_batch(InsertRow(rows, Head(docs)), Tail(docs))

Runs == {1, 2}
IdleRun ==
    [pc |-> "idle", file |-> 0, items |-> <<>>, to_index |-> <<>>,
     total_skipped_schema |-> 0, added |-> FALSE, file_error |-> FALSE,
     embed_failed |-> {}, sequel |-> FALSE, status |-> -1]

InitIndexer ==
    /\ QueryIdle
    /\ ValidatorIdle
    /\ RetrieverIdle
    /\ ChunkerIdle
    /\ WindowerIdle
    /\ HandlesIdle
    /\ table = <<>>
    /\ \E files \in ChunkFiles : indexer = [files |-> files, run |-> [r \in Runs |-> IdleRun]]

OtherRun(r) == CHOOSE q \in Runs : q # r
Exited(r) == indexer.run[r].pc = "exit"

\* main starts.  sequel: it follows a run that returned without any file
\* error.
StartMain(r) ==
    /\ indexer.run[r].pc = "idle"
    /\ indexer' = [indexer EXCEPT !.run[r] =
          [@ EXCEPT !.pc = "file", !.file = 1,
                    !.sequel = Exited(OtherRun(r)) /\ ~indexer.run[OtherRun(r)].file_error]]
    /\ UNCHANGED <<table, queryVars, validatorVars, retrieverVars, chunkerVars, windowerVars, handleVars>>

\* main, lines 352-358: the next chunk file is opened.
OpenFile(r) ==
    /\ indexer.run[r].pc = "file"
    /\ indexer.run[r].file <= Len(indexer.files)
    /\ indexer' = [indexer EXCEPT !.run[r] =
          [@ EXCEPT !.pc = "item",
                    !.items = stream_jsonl_objects_from_s3(
                                  indexer.files[indexer.run[r].file]),
                    !.to_index = <<>>]]
    /\ UNCHANGED <<table, queryVars, validatorVars, retrieverVars, chunkerVars, windowerVars, handleVars>>

\* main, lines 359-366: the next object of the file is validated and looked
\* up in the table.
NextItem(r) ==
    /\ indexer.run[r].pc = "item"
    /\ indexer.run[r].items # <<>>
    /\ LET raw == Head(indexer.run[r].items)
       IN  IF ~normalize_and_validate_chunk(raw)
           THEN indexer' = [indexer EXCEPT !.run[r] =
                   [@ EXCEPT !.total_skipped_schema = @ + 1, !.items = Tail(@)]]
           ELSE \E queryOk \in BOOLEAN :
                   indexer' = [indexer EXCEPT !.run[r] =
                      IF pg_doc_exists(table, raw.chunk_id, queryOk)
                      THEN [@ EXCEPT !.items = Tail(@)]
                      ELSE [@ EXCEPT !.pc = "embed"]]
    /\ UNCHANGED <<table, queryVars, validatorVars, retrieverVars, chunkerVars, windowerVars, handleVars>>

\* main, lines 367-374 and the except of line 380: the chunk is embedded
\* and joins the batch, a full batch is inserted; an exception of
\* get_embedding_from_bedrock ends the file.
EmbedItem(r) ==
    /\ indexer.run[r].pc = "embed"
    /\ LET run == indexer.run[r]
           cid == Head(run.items).chunk_id
           batch == Append(run.to_index, cid)
           full == Len(batch) >= BATCH_SIZE
           rows == IF full THEN pg_insert_batch(table, batch) ELSE table
       IN  \/ /\ table' = rows
              /\ indexer' = [indexer EXCEPT !.run[r] =
                    [@ EXCEPT !.pc = "item", !.items = Tail(@),
                              !.to_index = IF full THEN <<>> ELSE batch,
                              !.added = @ \/ rows # table]]
           \/ /\ table' = table
              /\ indexer' = [indexer EXCEPT !.run[r] =
                    [@ EXCEPT !.pc = "file", !.file = @ + 1, !.items = <<>>,
                              !.to_index = <<>>, !.file_error = TRUE,
                              !.embed_failed = @ \cup {cid}]]
    /\ UNCHANGED <<queryVars, validatorVars, retrieverVars, chunkerVars, windowerVars, handleVars>>

\* main, lines 375-379: the rest of the batch is inserted at the end of the
\* file.
FileDone(r) ==
    /\ indexer.run[r].pc = "item"
    /\ indexer.run[r].items = <<>>
    /\ LET rows == pg_insert_batch(table, indexer.run[r].to_index)
       IN  /\ table' = rows
           /\ indexer' = [indexer EXCEPT !.run[r] =
                 [@ EXCEPT !.pc = "file", !.file = @ + 1, !.to_index = <<>>,
                           !.added = @ \/ rows # table]]
    /\ UNCHANGED <<queryVars, validatorVars, retrieverVars, chunkerVars, windowerVars, handleVars>>

\* main, lines 419-421: SystemExit(50) when a line was skipped, else 0.
ExitStatus(total_skipped_schema) == IF total_skipped_schema > 0 THEN 50 ELSE 0

ExitMain(r) ==
    /\ indexer.run[r].pc = "file"
    /\ indexer.run[r].file > Len(indexer.files)
    /\ indexer' = [indexer EXCEPT !.run[r] =
          [@ EXCEPT !.pc = "exit", !.status = ExitStatus(indexer.run[r].total_skipped_schema)]]
    /\ UNCHANGED <<table, queryVars, validatorVars, retrieverVars, chunkerVars, windowerVars, handleVars>>

NextIndexer ==
    \E r \in Runs :
        \/ StartMain(r)
        \/ OpenFile(r)
        \/ NextItem(r)
        \/ EmbedItem(r)
        \/ FileDone(r)
        \/ ExitMain(r)

SpecIndexer == InitIndexer /\ [][NextIndexer]_vars

\* ------------------------------------------------------------------------
\* Properties
\* ------------------------------------------------------------------------
Called(name) == \E i \in 1..Len(calls) : calls[i] = name

Served == pc = "done"

\* The request as the orchestrator reads it.
EventLanguage == FieldText(event.language)
EventChannel == FieldText(event.channel)
IsValidated == validated.kind = "ok"

\* C1: every response returned by handler/handle has a request_id and one
\* resolution out of answer, refusal, not_enough_info, invalid_output, and a
\* refusal carries a guidance_key.
C1_ResponseShape ==
    Served =>
        /\ "request_id" \in DOMAIN response
        /\ response.request_id \in {GeneratedRequestId, "req-1"}
        /\ "resolution" \in DOMAIN response
        /\ response.resolution \in Resolutions
        /\ response.resolution = "refusal" =>
              /\ "guidance_key" \in DOMAIN response
              /\ response.guidance_key # ""

\* A request whose retrieval raised was answered with invalid_output.
C1_Witness ==
    /\ Served
    /\ event.filters = Lst
    /\ Called("retrieve")
    /\ response.resolution = "invalid_output"
    /\ response.request_id = GeneratedRequestId

\* C2: each line of an answer response ends with a citation [n],
\* 1 <= n <= number of passages given to the generator, and holds no
\* disallowed substring in any letter case.
LineEndsWithCitationUpTo(ln, k) ==
    /\ ln # <<>>
    /\ ln[Len(ln)] # " "
    /\ \E n \in 1..k : CitationNumber(ln[Len(ln)]) = n

LineFreeOfDisallowed(ln) ==
    \A i \in 1..Len(ln) : \A sub \in DISALLOWED_SUBSTRINGS : ~Occurs(sub, LowerToken(ln[i]))

C2_AnswerLinesCited ==
    (Served /\ response.resolution = "answer") =>
        /\ response.answer_lines # <<>>
        /\ \A i \in 1..Len(response.answer_lines) :
              /\ LineEndsWithCitationUpTo(response.answer_lines[i], Len(retr_res.passages))
              /\ LineFreeOfDisallowed(response.answer_lines[i])

\* An answer over two passages whose line cites the second one.
C2_Witness ==
    /\ Served
    /\ response.resolution = "answer"
    /\ Len(retr_res.passages) = 2
    /\ response.answer_lines[1] = <<"Apply [2]">>

\* C3 as stated: a validated request whose query matches a blocklist
\* pattern is refused with the key of a matching category, and neither the
\* retriever nor the generator is called at any point.
QueryBlocked == MatchesMedical(validated.query) \/ MatchesLegal(validated.query)

CategoryKey ==
    IF MatchesMedical(validated.query) THEN "refusal_medical" ELSE "refusal_legal"

NoRetrieverNoGenerator == ~Called("retrieve") /\ ~Called("generate")

C3_Original ==
    (IsValidated /\ QueryBlocked) =>
        /\ NoRetrieverNoGenerator
        /\ Served => /\ response.resolution = "refusal"
                     /\ response.guidance_key = CategoryKey

\* C3 amended: the category's guidance key is returned when the request is
\* not refused by the ASR gate first; the retriever and the generator are
\* called for no request whose query matches the blocklist.
AsrLow ==
    /\ validated.channel = "voice"
    /\ validated.asr_confidence.n < ASR_CONF_THRESHOLD

C3_BlockedRefused ==
    (IsValidated /\ QueryBlocked) =>
        /\ NoRetrieverNoGenerator
        /\ (Served /\ ~AsrLow) => /\ response.resolution = "refusal"
                                  /\ response.guidance_key = CategoryKey

\* A web request with a legal-advice query was refused with refusal_legal.
C3_Witness ==
    /\ Served
    /\ IsValidated
    /\ validated.channel = "web"
    /\ validated.query = <<"legal", "advice">>
    /\ response.guidance_key = "refusal_legal"

\* C4: a voice request below ASR_CONF_THRESHOLD is refused with
\* refusal_asr_low_confidence without any retriever call, also when its
\* query matches the blocklist; no other request gets that refusal.
C4_AsrGate ==
    /\ (IsValidated /\ AsrLow) =>
          /\ ~Called("retrieve")
          /\ Served => /\ response.resolution = "refusal"
                       /\ response.guidance_key = "refusal_asr_low_confidence"
    /\ (Served /\ "guidance_key" \in DOMAIN response
               /\ response.guidance_key = "refusal_asr_low_confidence") =>
          /\ EventChannel = "voice"
          /\ IsNum(AsrOf(event))
          /\ AsrOf(event).n < ASR_CONF_THRESHOLD

\* A low-confidence voice request with a medical query got the ASR refusal.
C4_Witness ==
    /\ Served
    /\ IsValidated
    /\ EventChannel = "voice"
    /\ event.asr_confidence = Str("0.2")
    /\ MatchesMedical(validated.query)
    /\ response.guidance_key = "refusal_asr_low_confidence"

\* C5: a request-shape violation is refused with guidance_key
\* refusal_invalid_request and calls neither retriever nor generator.
\* (Events whose language is not a string make handle raise instead of
\* returning and are left out.)
ShapeViolation ==
    \/ EventLanguage \notin ALLOWED_LANGUAGES
    \/ EventChannel \notin ALLOWED_CHANNELS
    \/ event.query = <<>>
    \/ EventChannel = "voice" /\ IsNone(AsrOf(event))

C5_InvalidRequestRefusal ==
    (Served /\ ShapeViolation /\ ~IsNum(event.language)) =>
        /\ response.resolution = "refusal"
        /\ response.guidance_key = "refusal_invalid_request"
        /\ NoRetrieverNoGenerator

\* C6: a served request has made exactly one audit write attempt, before
\* the return, with the request id and the resolution of the response.
C6_OneAuditPerRequest ==
    Served =>
        /\ Len(auditLog) = 1
        /\ auditLog[1].request_id = response.request_id
        /\ auditLog[1].resolution = response.resolution

\* C7: the audit write decides nothing: whatever its outcome, control goes
\* on to the return of the response built before it, and the response
\* returned is that one.
C7_AuditStep ==
    (pc = "audit") => (pc' = "return" /\ pending' = pending)

C7_AuditDoesNotChangeResponse ==
    /\ [][C7_AuditStep]_vars
    /\ [](Served => response = pending.res)

\* An answer was returned although the audit put failed.
C7_Witness ==
    /\ Served
    /\ response.resolution = "answer"
    /\ Len(auditLog) = 1
    /\ auditLog[1].outcome = "write_failed"

\* C8: after a retrieval without passages or with top_similarity below
\* MIN_SIMILARITY the response is not_enough_info without answer_lines and
\* the generator is not called; the generator is called only after a
\* retrieval that returned passages with top_similarity >= MIN_SIMILARITY.
RetrievalReturned == retr_res.error # "not_called"

WeakRetrieval ==
    /\ RetrievalReturned
    /\ \/ retr_res.passages = <<>>
       \/ retr_res.top_similarity < MIN_SIMILARITY

C8_SimilarityGate ==
    /\ WeakRetrieval =>
          /\ ~Called("generate")
          /\ Served => /\ response.resolution = "not_enough_info"
                       /\ "answer_lines" \notin DOMAIN response
    /\ Called("generate") =>
          /\ calls[1] = "retrieve"
          /\ RetrievalReturned
          /\ retr_res.passages # <<>>
          /\ retr_res.top_similarity >= MIN_SIMILARITY

\* Passages came back, the best one below MIN_SIMILARITY.
C8_Witness ==
    /\ Served
    /\ retr_res.passages # <<>>
    /\ retr_res.top_similarity < MIN_SIMILARITY
    /\ response.resolution = "not_enough_info"

\* C9: a failed upstream call (embedder, vector store, or the generator's
\* model call after its retries) gives resolution invalid_output.
UpstreamFailed ==
    \/ retr_res.error \in {"embed_failed", "vector_search_failed"}
    \/ gen_upstream = "failed"

C9_UpstreamFailureInvalidOutput ==
    (Served /\ UpstreamFailed) => response.resolution = "invalid_output"

\* C10: for passages 1..k and a raw text, the outcome is not_enough_info
\* iff the trimmed text is exactly NOT_ENOUGH_INFORMATION, answer iff there
\* is a non-empty line and every non-empty line ends with [n], 1 <= n <= k,
\* without disallowed substring, invalid_output otherwise; an answer holds
\* every non-empty line of the text.
IsBlank(ln) == \A i \in 1..Len(ln) : ln[i] = " "

NonBlankIndexes(raw) == {i \in 1..Len(raw) : ~IsBlank(raw[i])}

\* The tokens of a line between its first and its last non-blank token.
Trimmed(ln) ==
    LET idx == {i \in 1..Len(ln) : ln[i] # " "}
        lo == CHOOSE i \in idx : \A j \in idx : i <= j
        hi == CHOOSE i \in idx : \A j \in idx : j <= i
    IN  IF idx = {} THEN <<>> ELSE SubSeq(ln, lo, hi)

TextIsExactlyNEI(raw) ==
    /\ Cardinality(NonBlankIndexes(raw)) = 1
    /\ \A i \in NonBlankIndexes(raw) : Trimmed(raw[i]) = <<"NOT_ENOUGH_INFORMATION">>

EveryLineGood(raw, k) ==
    /\ NonBlankIndexes(raw) # {}
    /\ \A i \in NonBlankIndexes(raw) :
          /\ LineEndsWithCitationUpTo(Trimmed(raw[i]), k)
          /\ LineFreeOfDisallowed(raw[i])

Validated == v_out # NoGeneration

C10_ValidatorOutcome ==
    Validated =>
        LET outcome == InterpretResolution(v_out)
        IN  /\ outcome \in {"not_enough_info", "answer", "invalid_output"}
            /\ (outcome = "not_enough_info") <=> TextIsExactlyNEI(v_raw)
            /\ (outcome = "answer") <=> EveryLineGood(v_raw, v_k)
            /\ (outcome = "answer") =>
                  /\ Len(v_out.answer_lines) = Cardinality(NonBlankIndexes(v_raw))
                  /\ \A i \in NonBlankIndexes(v_raw) :
                        \E j \in 1..Len(v_out.answer_lines) :
                           v_out.answer_lines[j] = Trimmed(v_raw[i])
            /\ (outcome # "answer") => v_out.answer_lines = <<>>

\* A text with one good line and one line citing past the last passage was
\* rejected as a whole.
C10_Witness ==
    /\ Validated
    /\ v_k = 1
    /\ v_raw = << <<"Apply [1]">>, <<"Apply [2]">> >>
    /\ v_out.decision = "INVALID_OUTPUT"

\* C11: in an answer response the citations list has one entry per
\* retrieved passage, in passage order, carrying the passage's number,
\* chunk_id, source_url and meta; so the [n] that ends an answer line is the
\* citation field of exactly one entry.
C11_CitationsMatchPassages ==
    (Served /\ response.resolution = "answer") =>
        LET passages == retr_res.passages
            citations == response.citations
        IN  /\ Len(citations) = Len(passages)
            /\ \A i \in 1..Len(passages) :
                  /\ citations[i].citation = i
                  /\ citations[i].citation = passages[i].number
                  /\ citations[i].chunk_id = passages[i].chunk_id
                  /\ citations[i].source_url = passages[i].source_url
                  /\ citations[i].meta = passages[i].meta
            /\ \A l \in 1..Len(response.answer_lines) :
                  LET ln == response.answer_lines[l]
                  IN  Cardinality({j \in 1..Len(citations) :
                          citations[j].citation = CitationNumber(ln[Len(ln)])}) = 1

\* An answer over two passages of different sources whose line cites the
\* first one.
C11_Witness ==
    /\ Served
    /\ response.resolution = "answer"
    /\ Len(response.citations) = 2
    /\ response.citations[1].chunk_id = 1
    /\ response.citations[2].chunk_id = 3
    /\ response.answer_lines = << <<"Apply [1]">> >>

\* C12: for every candidate list and every requested top_k / raw_k the
\* passages returned by retrieve are sorted by (final_score descending,
\* similarity descending, chunk_id ascending), are at most final_k (none
\* when final_k is below 1), hold no two equal normalized texts, keep for each normalized text a candidate
\* that is nearest by distance, and are numbered 1..count in rank order.
Retrieved == r_out # Unused

PassageSortsBefore(p, q) ==
    LET sp == compute_similarity_from_distance(p.distance)
        sq == compute_similarity_from_distance(q.distance)
    IN  \/ p.score > q.score
        \/ p.score = q.score /\ sp > sq
        \/ p.score = q.score /\ sp = sq /\ p.chunk_id < q.chunk_id

C12_RetrievalRanking ==
    Retrieved =>
        LET ps == r_out.passages
            count == Len(ps)
        IN  /\ \A i \in 1..(count - 1) : PassageSortsBefore(ps[i], ps[i + 1])
            /\ count <= (IF TopKOf(r_in.top_k) > 0 THEN TopKOf(r_in.top_k) ELSE 0)
            /\ \A i, j \in 1..count :
                  i # j => _normalize_text_key(ps[i].text) # _normalize_text_key(ps[j].text)
            /\ \A i \in 1..count : \A c \in 1..Len(r_in.cands) :
                  _normalize_text_key(r_in.cands[c].text) = _normalize_text_key(ps[i].text)
                     => ps[i].distance <= r_in.cands[c].distance
            /\ \A i \in 1..count : ps[i].number = i

\* C13: chunking and materialization are deterministic: every run of
\* parse_file on the same raw document with the same parameters computes
\* the same chunk JSONL bytes, hence the same chunked_sha256, whatever the
\* time of the run.
Assembled(w) == writer[w].jsonl # NoJsonl

C13_DeterministicChunks ==
    \A a, b \in Writers :
        (Assembled(a) /\ Assembled(b)) =>
            /\ writer[a].jsonl = writer[b].jsonl
            /\ compute_sha256_bytes(writer[a].jsonl) = compute_sha256_bytes(writer[b].jsonl)

WritingManifest(w) == Running(w) /\ writer[w].final_key = "manifest.json"

C15_ChunkFileBeforeManifest ==
    /\ \A w \in Writers : WritingManifest(w) => writer[w].stored
    /\ \A w \in Writers :
          (writer[w].final_key = "manifest.json" /\ writer[w].wrote) => writer[w].stored
    /\ objects["manifest.json"] # Absent =>
          \E w \in Writers :
             /\ writer[w].stored
             /\ objects["manifest.json"].data.chunked_sha256 = compute_sha256_bytes(writer[w].jsonl)

\* A run whose chunk-file write failed on every attempt has returned, and
\* there is no manifest.
C15_Witness ==
    \E w \in Writers :
        /\ writer[w].pc = "done"
        /\ writer[w].outcome = "error"
        /\ writer[w].final_key = "chunks.jsonl"
        /\ ~writer[w].stored
        /\ writer[w].attempt = PUT_RETRIES
        /\ objects["manifest.json"] = Absent

\* C16: during _s3_atomic_put the object at a final key is never partial:
\* a step that stores something there stores the complete new bytes of a
\* run that is at its copy; a run's put changes no key but its final key
\* and its own temp key; and no put makes more than PUT_RETRIES attempts.
InAtomicPut(w) == writer[w].pc \in {"put", "copy", "delete", "cleanup"}

C16_FinalKeyStep ==
    \A k \in Keys :
        (objects'[k] # objects[k] /\ objects'[k] # Absent) =>
            \E w \in Writers :
               /\ InAtomicPut(w)
               /\ \/ k = TempKey(writer[w].final_key, w)
                  \/ /\ k = writer[w].final_key
                     /\ writer[w].pc = "copy"
                     /\ objects'[k] = Stored(PutData(writer[w]))

C16_AtomicPut ==
    /\ [][C16_FinalKeyStep]_vars
    /\ [](\A k \in FinalKeys : objects[k] # Absent => ~objects[k].partial)
    /\ [](\A w \in Writers : writer[w].attempt <= PUT_RETRIES)

\* A put that stored the chunk file, failed to delete its temp key on the
\* last attempt and raised: the temp key is left behind.
C16_Witness ==
    \E w \in Writers :
        /\ writer[w].pc = "done"
        /\ writer[w].outcome = "error"
        /\ writer[w].attempt = PUT_RETRIES
        /\ objects["chunks.jsonl"] = Stored(writer[w].jsonl)
        /\ objects[TempKey("chunks.jsonl", w)] # Absent
        /\ objects["manifest.json"] = Absent

\* C17: after two concurrent runs of parse_file on the same raw document
\* have both completed, the manifest's chunked_sha256 is the sha256 of the
\* bytes stored at the chunk-file key, under every interleaving.
BothSaved == \A w \in Writers : writer[w].pc = "done" /\ writer[w].outcome = "saved" /\ ~writer[w].fault

C17_ConcurrentWritersConverge ==
    BothSaved =>
        /\ objects["chunks.jsonl"] # Absent
        /\ objects["manifest.json"] # Absent
        /\ objects["manifest.json"].data.chunked_sha256
              = compute_sha256_bytes(objects["chunks.jsonl"].data)

\* C18: the indexer is idempotent on the vector store: the table never
\* holds two rows of one chunk_id, under sequential and overlapping runs;
\* once a run has gone through all files without a file error the table
\* holds exactly one row per distinct valid chunk_id; and a run that follows
\* such a run inserts no row.
AllLines == UNION {{indexer.files[f][i] : i \in 1..Len(indexer.files[f])} : f \in 1..Len(indexer.files)}
ValidChunkIds == {l.chunk_id : l \in {x \in AllLines : x.kind = "chunk"}}
TableChunkIds == {table[i] : i \in 1..Len(table)}
CompleteRun(r) == Exited(r) /\ ~indexer.run[r].file_error

C18_IndexerIdempotent ==
    /\ \A i, j \in 1..Len(table) : i # j => table[i] # table[j]
    /\ TableChunkIds \subseteq ValidChunkIds
    /\ (\E r \in Runs : CompleteRun(r)) => TableChunkIds = ValidChunkIds
    /\ \A r \in Runs : indexer.run[r].sequel => ~indexer.run[r].added

\* Two overlapping runs both embedded the same chunks and both returned;
\* the table holds one row for each of the two chunks.
C18_Witness ==
    /\ \A r \in Runs : CompleteRun(r) /\ ~indexer.run[r].sequel /\ indexer.run[r].added
    /\ Len(table) = 2

\* C19: an embedding failure fails only its chunk: when a run has returned,
\* every valid chunk whose embedding did not fail in that run has a row.
C19_EmbeddingFailureFailsOneChunk ==
    \A r \in Runs :
        Exited(r) => \A c \in ValidChunkIds : c \in TableChunkIds \/ c \in indexer.run[r].embed_failed

\* C20: a malformed line (no JSON, or a required key missing) inserts no
\* row and is counted, the other lines and files are processed, and the run
\* ends with status 50 after all files; without a malformed line it
\* returns 0.
Malformed(f) == {i \in 1..Len(indexer.files[f]) : indexer.files[f][i].kind # "chunk"}

RECURSIVE MalformedUpTo(_)
MalformedUpTo(f) == IF f = 0 THEN 0 ELSE Cardinality(Malformed(f)) + MalformedUpTo(f - 1)

C20_MalformedLinesFailTheRun ==
    \A r \in Runs :
        CompleteRun(r) =>
            LET malformed == MalformedUpTo(Len(indexer.files))
            IN  /\ indexer.run[r].total_skipped_schema = malformed
                /\ indexer.run[r].status = (IF malformed > 0 THEN 50 ELSE 0)
                /\ "c9" \notin TableChunkIds
                /\ TableChunkIds = ValidChunkIds

\* ------------------------------------------------------------------------
\* indexing_pipeline/ELT/parse_chunk_store/_html.py: canonicalize_text,
\* sentence_spans, encode_tokens and split_into_windows inside parse_file.
\* A text is a sequence of characters; the tokenizer is the whitespace split
\* that encode_tokens falls back to when tiktoken is absent.
\* ------------------------------------------------------------------------
MaxChars == 7

Chars == {"a", ".", " "}
Texts == UNION {[1..n -> Chars] : n \in 0..MaxChars}

\* s.strip()
Strip(s) == StripLine(s)

\* re.sub(r"\s+", " ", s): every run of spaces becomes one space.
RECURSIVE CollapseSpaces(_)
CollapseSpaces(s) ==
    IF Len(s) < 2 THEN s
    ELSE IF s[1] = " " /\ s[2] = " " THEN CollapseSpaces(Tail(s))
    ELSE <<s[1]>> \o CollapseSpaces(Tail(s))

canonicalize_text(s) == Strip(CollapseSpaces(s))

\* One match of _sentence_re from position p: at least one character, then
\* up to the end of the first run of sentence punctuation, or, when no
\* punctuation follows, up to the end of the text.
SentenceEnd(text, p) ==
    LET stops == {q \in (p + 1)..Len(text) : text[q] = "."}
    IN  IF stops = {} THEN Len(text)
        ELSE LET q == CHOOSE x \in stops : \A y \in stops : x <= y
                 run == {e \in q..Len(text) : \A k \in q..e : text[k] = "."}
             IN  CHOOSE e \in run : \A f \in run : f <= e

RECURSIVE SentencesFrom(_, _)
SentencesFrom(text, p) ==
    IF p > Len(text) THEN <<>>
    ELSE LET e == SentenceEnd(text, p)
             s == Strip(SubSeq(text, p, e))
         IN  (IF s = <<>> THEN <<>> ELSE <<s>>) \o SentencesFrom(text, e + 1)

\* sentence_spans: the stripped sentences of the text, in order.
sentence_spans(text) == SentencesFrom(text, 1)

\* encode_tokens without tiktoken: text.split().
RECURSIVE encode_tokens(_)
encode_tokens(text) ==
    LET t == LStrip(text)
    IN  IF t = <<>> THEN <<>>
        ELSE LET spaces == {k \in 1..Len(t) : t[k] = " "}
                 k == IF spaces = {} THEN Len(t) + 1
                      ELSE CHOOSE x \in spaces : \A y \in spaces : x <= y
             IN  <<SubSeq(t, 1, k - 1)>> \o encode_tokens(SubSeq(t, k + 1, Len(t)))

\* " ".join(parts)
RECURSIVE JoinSpace(_)
JoinSpace(parts) ==
    IF parts = <<>> THEN <<>>
    ELSE IF Len(parts) = 1 THEN parts[1]
    ELSE parts[1] \o <<" ">> \o JoinSpace(Tail(parts))

\* decode_tokens without tiktoken.
decode_tokens(tokens) == JoinSpace(tokens)

\* token_start_idx and token_end_idx of a sentence whose tokens were cut.
NoneIdx == -1

\* sent_items with their token offsets (lines 240-253).
RECURSIVE SentItemsFrom(_, _)
SentItemsFrom(sents, token_cursor) ==
    IF sents = <<>> THEN <<>>
    ELSE LET toks == encode_tokens(Head(sents))
         IN  <<[text |-> Head(sents), token_len |-> Len(toks), tokens |-> toks,
                token_start_idx |-> token_cursor,
                token_end_idx |-> token_cursor + Len(toks)]>>
             \o SentItemsFrom(Tail(sents), token_cursor + Len(toks))

sent_items_of(text) == SentItemsFrom(sentence_spans(text), 0)

\* The inner loop (lines 263-270): the index after the last sentence that
\* still fits; i counts from 0 as in the code.
RECURSIVE PackEnd(_, _, _, _)
PackEnd(sent_items, i, cur_token_count, max_tokens) ==
    IF i < Len(sent_items) /\ cur_token_count + sent_items[i + 1].token_len <= max_tokens
    THEN PackEnd(sent_items, i + 1, cur_token_count + sent_items[i + 1].token_len, max_tokens)
    ELSE i

RECURSIVE SumTokenLen(_, _, _)
SumTokenLen(sent_items, from, to) ==
    IF from >= to THEN 0
    ELSE sent_items[from + 1].token_len + SumTokenLen(sent_items, from + 1, to)

\* One iteration of the outer loop up to chunk_meta (lines 258-301): the
\* window packed from sentence start_i, the sentence items after it and the
\* cursor i.
PackFrom(sent_items, start_i, window_index, max_tokens) ==
    LET end == PackEnd(sent_items, start_i, 0, max_tokens)
        sent == sent_items[start_i + 1]
        chunk_token_start == sent.token_start_idx
    IN  IF end > start_i
        THEN [items |-> sent_items,
              chunk_meta |->
                [window_index |-> window_index,
                 text |-> Strip(JoinSpace([k \in 1..(end - start_i) |->
                                              sent_items[start_i + k].text])),
                 token_count |-> SumTokenLen(sent_items, start_i, end),
                 token_start |-> chunk_token_start,
                 token_end |-> sent_items[end].token_end_idx,
                 start_sentence_idx |-> start_i,
                 end_sentence_idx |-> end]]
        ELSE LET truncated == SubSeq(sent.tokens, 1, max_tokens)
                 remaining == SubSeq(sent.tokens, max_tokens + 1, Len(sent.tokens))
                 i == IF remaining # <<>> THEN start_i ELSE start_i + 1
             IN  [items |-> IF remaining # <<>>
                            THEN [sent_items EXCEPT ![start_i + 1] =
                                    [@ EXCEPT !.tokens = remaining,
                                              !.token_len = Len(remaining),
                                              !.token_start_idx = NoneIdx,
                                              !.token_end_idx = NoneIdx]]
                            ELSE sent_items,
                  chunk_meta |->
                    [window_index |-> window_index,
                     text |-> decode_tokens(truncated),
                     token_count |-> Len(truncated),
                     token_start |-> chunk_token_start,
                     token_end |-> chunk_token_start + Len(truncated),
                     start_sentence_idx |-> start_i,
                     end_sentence_idx |-> i]]

\* Line 303: a window joins the previous one.
ShouldMerge_Never(windows, chunk_meta, min_tokens) == FALSE
ShouldMerge(windows, chunk_meta, min_tokens) ==
    windows # <<>> /\ chunk_meta.token_count < min_tokens

\* Lines 304-308.
MergeInto(prev, chunk_meta) ==
    [prev EXCEPT !.text = @ \o <<" ">> \o chunk_meta.text,
                 !.token_count = @ + chunk_meta.token_count,
                 !.token_end = chunk_meta.token_end,
                 !.end_sentence_idx = chunk_meta.end_sentence_idx]

\* Lines 303-310.
Emit(windows, chunk_meta, min_tokens) ==
    IF ShouldMerge(windows, chunk_meta, min_tokens)
    THEN [windows EXCEPT ![Len(windows)] = MergeInto(@, chunk_meta)]
    ELSE Append(windows, chunk_meta)

\* Line 311: the cursor of the next iteration.
NextCursor_NoFloor(start_i, end_sentence_idx, overlap_sentences) ==
    IF end_sentence_idx - overlap_sentences > 0
    THEN end_sentence_idx - overlap_sentences ELSE 0
NextCursor(start_i, end_sentence_idx, overlap_sentences) ==
    IF start_i + 1 >= end_sentence_idx - overlap_sentences
    THEN start_i + 1 ELSE end_sentence_idx - overlap_sentences

\* parse_file on one document whose chunks are not stored yet, with a
\* storage that answers: the text is windowed, the chunks are built and the
\* chunk file and the manifest are written.
MaxTokensChoices == {1, 2}
MinTokensChoices == {0, 2}
OverlapChoices == {0, 1, 2}

\* The window split_into_windows yields for an empty text (line 237).
EmptyWindow ==
    [window_index |-> 0, text |-> <<>>, token_count |-> 0, token_start |-> 0, token_end |-> 0]

InitWindows ==
    /\ QueryIdle
    /\ ValidatorIdle
    /\ RetrieverIdle
    /\ ChunkerIdle
    /\ IndexerIdle
    /\ HandlesIdle
    /\ \E text \in Texts, max_tokens \in MaxTokensChoices,
          min_tokens \in MinTokensChoices, overlap_sentences \in OverlapChoices :
          windower = [pc |-> "start", text |-> text, max_tokens |-> max_tokens,
                      min_tokens |-> min_tokens, overlap_sentences |-> overlap_sentences,
                      canonical_text |-> <<>>, total_tokens |-> 0,
                      sentences |-> <<>>, sent_items |-> <<>>, i |-> 0, window_index |-> 0,
                      windows |-> <<>>, packed |-> <<>>, before |-> <<>>,
                      chunks |-> <<>>, chunk_file |-> <<>>, manifest |-> "unchanged",
                      error |-> "none"]

WindowerFrame == UNCHANGED <<queryVars, validatorVars, retrieverVars, chunkerVars,
                             indexerVars, handleVars>>

\* parse_file lines 536-550 and split_into_windows lines 235-256: without
\* text the run ends, otherwise the text is canonicalized, its tokens are
\* counted and its sentences are prepared.
ReadText ==
    /\ windower.pc = "start"
    /\ LET canonical_text == canonicalize_text(windower.text)
           total_tokens == Len(encode_tokens(canonical_text))
       IN  windower' =
             IF windower.text = <<>>
             THEN [windower EXCEPT !.pc = "done", !.error = "no_extractable_text"]
             ELSE IF canonical_text = <<>>
             THEN [windower EXCEPT !.pc = "chunks", !.total_tokens = total_tokens,
                                   !.windows = <<EmptyWindow>>]
             ELSE [windower EXCEPT !.pc = "loop", !.canonical_text = canonical_text,
                                   !.total_tokens = total_tokens,
                                   !.sentences = sentence_spans(canonical_text),
                                   !.sent_items = sent_items_of(canonical_text)]
    /\ WindowerFrame

\* split_into_windows lines 257-312: one iteration of the outer loop.
PackWindow ==
    /\ windower.pc = "loop"
    /\ windower.i < Len(windower.sent_items)
    /\ LET p == PackFrom(windower.sent_items, windower.i, windower.window_index,
                         windower.max_tokens)
       IN  windower' = [windower EXCEPT
             !.sent_items = p.items,
             !.window_index = @ + 1,
             !.before = windower.windows,
             !.packed = Append(@, p.chunk_meta),
             !.windows = Emit(@, p.chunk_meta, windower.min_tokens),
             !.i = NextCursor(p.chunk_meta.start_sentence_idx,
                              p.chunk_meta.end_sentence_idx,
                              windower.overlap_sentences)]
    /\ WindowerFrame

\* split_into_windows lines 313-314: the loop is over, the windows are
\* yielded.
YieldWindows ==
    /\ windower.pc = "loop"
    /\ windower.i >= Len(windower.sent_items)
    /\ windower' = [windower EXCEPT !.pc = "chunks"]
    /\ WindowerFrame

\* parse_file lines 567-613: one chunk per window.
ChunkOf(w, total_tokens) ==
    [chunk_index |-> w.window_index + 1, text |-> w.text, token_count |-> w.token_count,
     token_range |-> <<w.token_start, w.token_end>>,
     document_total_tokens |-> total_tokens]

BuildChunks ==
    /\ windower.pc = "chunks"
    /\ windower' = [windower EXCEPT
          !.pc = "write",
          !.chunks = [k \in 1..Len(windower.windows) |->
                        ChunkOf(windower.windows[k], windower.total_tokens)]]
    /\ WindowerFrame

\* parse_file lines 615-636: nothing is written without chunks, else the
\* chunk file is written and the manifest extended.
WriteChunks ==
    /\ windower.pc = "write"
    /\ windower' =
          IF windower.chunks = <<>>
          THEN [windower EXCEPT !.pc = "done"]
          ELSE [windower EXCEPT !.pc = "done", !.chunk_file = windower.chunks,
                                !.manifest = "chunked"]
    /\ WindowerFrame

NextWindows ==
    \/ ReadText
    \/ PackWindow
    \/ YieldWindows
    \/ BuildChunks
    \/ WriteChunks

SpecWindows == InitWindows /\ [][NextWindows]_vars

\* ------------------------------------------------------------------------
\* Properties of the windower
\* ------------------------------------------------------------------------
ParsedWithWindows == windower # Unused /\ windower.pc = "done" /\ windower.error = "none"

\* C21: the chunk_index values of the written chunk file are 1, 2, ..., N
\* in order, with no gap and no repeat, also after short windows were
\* merged into their predecessor.
C21_DenseChunkIndex ==
    ParsedWithWindows =>
        \A k \in 1..Len(windower.chunk_file) : windower.chunk_file[k].chunk_index = k

\* C22: every chunk of a document with document_total_tokens > 0 has
\* 0 <= token_range[0] <= token_range[1] <= document_total_tokens.
C22_TokenRangeWithinDocument ==
    ParsedWithWindows =>
        \A k \in 1..Len(windower.chunk_file) :
            LET c == windower.chunk_file[k]
            IN  c.document_total_tokens > 0 =>
                    /\ 0 <= c.token_range[1]
                    /\ c.token_range[1] <= c.token_range[2]
                    /\ c.token_range[2] <= c.document_total_tokens

\* The windows are final.
Windowed == windower # Unused /\ windower.pc \in {"chunks", "write", "done"}
                              /\ windower.error = "none" /\ windower.sentences # <<>>

\* The sentence items as they were before any truncation.
OriginalItems == SentItemsFrom(windower.sentences, 0)
LongSentences == {k \in 1..Len(windower.sentences) :
                     OriginalItems[k].token_len > windower.max_tokens}

\* C23: when a sentence has more than MAX_TOKENS tokens, every token of it
\* lies in some emitted window, and the token_end of the last emitted
\* window is document_total_tokens.
C23_LongSentenceFullyEmitted ==
    (Windowed /\ LongSentences # {}) =>
        /\ \A k \in LongSentences :
              \A p \in OriginalItems[k].token_start_idx..(OriginalItems[k].token_end_idx - 1) :
                  \E n \in 1..Len(windower.windows) :
                      /\ windower.windows[n].token_start <= p
                      /\ p < windower.windows[n].token_end
        /\ windower.windows[Len(windower.windows)].token_end = windower.total_tokens

\* C24: a packed window is emitted on its own iff it is the first window or
\* has at least MIN_TOKENS tokens; otherwise it is merged into the last
\* emitted window: text appended after one space, token_count added,
\* token_end taken from the merged window.  So no window after the first
\* has fewer than MIN_TOKENS tokens, and a single short window is kept.
C24_MergeShortWindows ==
    (windower # Unused /\ windower.packed # <<>>) =>
        LET m == windower.packed[Len(windower.packed)]
            b == windower.before
            w == windower.windows
        IN  /\ IF b = <<>> \/ m.token_count >= windower.min_tokens
               THEN w = Append(b, m)
               ELSE /\ Len(w) = Len(b)
                    /\ \A k \in 1..(Len(b) - 1) : w[k] = b[k]
                    /\ w[Len(w)].text = b[Len(b)].text \o <<" ">> \o m.text
                    /\ w[Len(w)].token_count = b[Len(b)].token_count + m.token_count
                    /\ w[Len(w)].token_end = m.token_end
                    /\ w[Len(w)].token_start = b[Len(b)].token_start
                    /\ w[Len(w)].window_index = b[Len(b)].window_index
            /\ \A k \in 2..Len(w) : w[k].token_count >= windower.min_tokens
            /\ Len(windower.packed) = 1 => w = <<m>>

\* A short window was merged into the previous one, and a later window was
\* emitted on its own.
C24_Witness ==
    /\ windower # Unused
    /\ windower.pc = "done"
    /\ Len(windower.windows) = 2
    /\ Len(windower.packed) = 3
    /\ windower.packed[2].token_count < windower.min_tokens

\* C25: for a document whose extracted text is empty, or canonicalizes to
\* the empty string, parse_file produces no chunk, writes no chunk file and
\* leaves the stored raw manifest unchanged.
C25_EmptyDocumentWritesNothing ==
    (windower # Unused /\ windower.pc = "done" /\ canonicalize_text(windower.text) = <<>>) =>
        /\ windower.chunks = <<>>
        /\ windower.chunk_file = <<>>
        /\ windower.manifest = "unchanged"

\* C26: every window emitted by split_into_windows, and every chunk
\* written, has token_count <= MAX_TOKENS_PER_CHUNK, also after merging.
C26_WindowWithinMaxTokens ==
    windower # Unused =>
        /\ \A k \in 1..Len(windower.windows) :
              windower.pc \in {"chunks", "write", "done"} =>
                  windower.windows[k].token_count <= windower.max_tokens
        /\ \A k \in 1..Len(windower.chunk_file) :
              windower.chunk_file[k].token_count <= windower.max_tokens

\* C28: each emitted window is a contiguous slice of the document: its text
\* is the single-space join of the sentences start_sentence_idx ..
\* end_sentence_idx - 1, each once, and token_count = token_end -
\* token_start; a document of two or more sentences that fit in MAX_TOKENS
\* yields one window whose text is the canonical text.
SentenceSlice(from, to) ==
    JoinSpace([k \in 1..(to - from) |-> windower.sentences[from + k]])

C28_WindowIsContiguousSlice ==
    Windowed =>
        /\ \A n \in 1..Len(windower.windows) :
              LET w == windower.windows[n]
              IN  /\ w.text = SentenceSlice(w.start_sentence_idx, w.end_sentence_idx)
                  /\ w.token_count = w.token_end - w.token_start
        /\ (/\ Len(windower.sentences) >= 2
            /\ SumTokenLen(OriginalItems, 0, Len(OriginalItems)) <= windower.max_tokens)
           => /\ Len(windower.windows) = 1
              /\ windower.windows[1].text = SentenceSlice(0, Len(windower.sentences))

\* C30: split_into_windows terminates: the sentence cursor strictly
\* increases on every iteration of the outer loop, so at most one window is
\* packed per sentence index and the loop has at most len(sent_items)
\* iterations, for every max_tokens >= 1, min_tokens >= 0 and
\* overlap_sentences >= 0.
C30_CursorStrictlyIncreases ==
    windower # Unused =>
        /\ \A k \in 1..Len(windower.packed) :
              /\ windower.packed[k].start_sentence_idx < Len(windower.sent_items)
              /\ k > 1 => windower.packed[k - 1].start_sentence_idx
                              < windower.packed[k].start_sentence_idx
        /\ windower.packed # <<>> =>
              windower.packed[Len(windower.packed)].start_sentence_idx < windower.i
        /\ Len(windower.packed) <= Len(windower.sent_items)

\* The overlap exceeds the sentences of a window, a sentence was longer
\* than max_tokens, and the loop still ended after several iterations.
C30_Witness ==
    /\ windower # Unused
    /\ windower.pc = "done"
    /\ Len(windower.packed) >= 3
    /\ windower.overlap_sentences = 2
    /\ \E k \in 1..Len(windower.packed) :
          /\ windower.packed[k].end_sentence_idx - windower.packed[k].start_sentence_idx
                 < windower.overlap_sentences
          /\ windower.packed[k].end_sentence_idx = windower.packed[k].start_sentence_idx

\* C29: after a run ended with the chunk file at its final key and the raw
\* manifest not updated, a later run of parse_file on the same document,
\* itself free of storage errors, leaves a manifest whose chunked_sha256 is
\* the sha256 of the stored chunk file.
C29_LaterRunRepairsManifest ==
    \A w \in Writers :
        (/\ writer # Unused
         /\ writer[w].after_partial
         /\ writer[w].pc = "done"
         /\ ~writer[w].fault
         /\ objects["chunks.jsonl"] # Absent
         /\ ~objects["chunks.jsonl"].partial)
        => /\ objects["manifest.json"] # Absent
           /\ objects["manifest.json"] =
                 Stored(ManifestWith(compute_sha256_bytes(objects["chunks.jsonl"].data)))

\* ------------------------------------------------------------------------
\* inference_pipeline/core: the module-level cached handles.  "pg" is
\* retriever._pg_conn (init_pg_connection); "client" stands for the boto3
\* clients retriever._bedrock, generator._bedrock and query._s3_client,
\* whose initializers have the same shape.  Request threads call the
\* initializers; a thread may be preempted between any two statements.
\* ------------------------------------------------------------------------
Threads == {1, 2, 3}
Kinds == {"pg", "client"}

\* The value None of a module global or a local.
NoHandle == 0

IdleThread == [pc |-> "idle", kind |-> "pg", conn |-> NoHandle, got |-> NoHandle]

InitHandles ==
    /\ QueryIdle
    /\ ValidatorIdle
    /\ RetrieverIdle
    /\ ChunkerIdle
    /\ IndexerIdle
    /\ WindowerIdle
    /\ handles = [cached |-> [k \in Kinds |-> NoHandle],
                  created |-> [k \in Kinds |-> 0],
                  thread |-> [t \in Threads |-> IdleThread]]

HandlesFrame == UNCHANGED <<queryVars, validatorVars, retrieverVars, chunkerVars,
                            indexerVars, windowerVars>>

\* A request thread calls an initializer.
CallInit(t) ==
    /\ handles.thread[t].pc = "idle"
    /\ \E k \in Kinds :
          handles' = [handles EXCEPT !.thread[t] = [@ EXCEPT !.pc = "check", !.kind = k]]
    /\ HandlesFrame

\* if _pg_conn is not None: return _pg_conn
CheckCached(t) ==
    /\ handles.thread[t].pc = "check"
    /\ LET k == handles.thread[t].kind
       IN  handles' = [handles EXCEPT !.thread[t] =
              IF handles.cached[k] # NoHandle
              THEN [@ EXCEPT !.pc = "returned", !.got = handles.cached[k]]
              ELSE [@ EXCEPT !.pc = "create"]]
    /\ HandlesFrame

\* psycopg.connect / boto3.client: a new handle, or an exception, on which
\* the global is set to None.  The client initializers store the new handle
\* in the global in the same statement; init_pg_connection keeps it in the
\* local conn first.
CreateHandle(t) ==
    /\ handles.thread[t].pc = "create"
    /\ LET k == handles.thread[t].kind
           new == handles.created[k] + 1
       IN  \/ handles' = [handles EXCEPT
                 !.created[k] = new,
                 !.cached[k] = IF k = "pg" THEN @ ELSE new,
                 !.thread[t] = [@ EXCEPT !.pc = IF k = "pg" THEN "assign" ELSE "return",
                                         !.conn = new]]
           \/ handles' = [handles EXCEPT
                 !.cached[k] = NoHandle,
                 !.thread[t] = [@ EXCEPT !.pc = "failed"]]
    /\ HandlesFrame

\* _pg_conn = conn
AssignGlobal(t) ==
    /\ handles.thread[t].pc = "assign"
    /\ handles' = [handles EXCEPT !.cached[handles.thread[t].kind] = handles.thread[t].conn,
                                  !.thread[t] = [@ EXCEPT !.pc = "return"]]
    /\ HandlesFrame

\* return _pg_conn: the global is read again.
ReturnHandle(t) ==
    /\ handles.thread[t].pc = "return"
    /\ handles' = [handles EXCEPT !.thread[t] =
          [@ EXCEPT !.pc = "returned", !.got = handles.cached[handles.thread[t].kind]]]
    /\ HandlesFrame

NextHandles ==
    \E t \in Threads :
        \/ CallInit(t)
        \/ CheckCached(t)
        \/ CreateHandle(t)
        \/ AssignGlobal(t)
        \/ ReturnHandle(t)

SpecHandles == InitHandles /\ [][NextHandles]_vars

\* C27: each cached handle is initialized at most once: when several
\* request threads trigger first use concurrently, one handle of each kind
\* is created and every thread uses that handle.
C27_HandlesCreatedOnce ==
    handles # Unused =>
        \A k \in Kinds :
            /\ handles.created[k] <= 1
            /\ \A t, u \in Threads :
                  (/\ handles.thread[t].kind = k /\ handles.thread[t].pc = "returned"
                   /\ handles.thread[u].kind = k /\ handles.thread[u].pc = "returned")
                  => handles.thread[t].got = handles.thread[u].got

====
